---- MODULE Spec2Model ----
(***************************************************************************)
(* The IT Admin agent (src/agents/it-admin/app.py): the /chat agentic      *)
(* loop, its in-memory conversation store, the tool dispatch inside the    *)
(* loop and DELETE /conversations/{id}.                                    *)
(*                                                                         *)
(* Every handler of app.py is an `async def` that never awaits (the model  *)
(* client is the synchronous AzureOpenAI client), so a handler runs to     *)
(* completion on the event loop before another starts: the model has one   *)
(* handler in progress at a time and splits /chat into its sequential      *)
(* steps (start, model call, one tool call, loop exit).                    *)
(***************************************************************************)
EXTENDS Integers, Sequences, FiniteSets, TLC

(***************************************************************************)
(* Bounds of the model.                                                    *)
(***************************************************************************)
\* /chat calls in one behaviour
MaxTurns == 2
\* tool requests carried by one model response
MaxBatch == 2
\* inputs, over one behaviour, other than the plain ones: a model message
\* with tool requests that is not the one the model stub repeats
\* (SteadyMessage), a request that carries a context, a direct tool call
MaxVaried == 1
\* model messages with tool requests over one behaviour
MaxAsked == 10
\* backend: tasks the event loop runs at once (requests in progress)
MaxTasks == 2
\* backend: requests started over one behaviour
MaxOps == 3

(***************************************************************************)
(* Program constants.                                                      *)
(***************************************************************************)
max_iterations == 10

SYSTEM_PROMPT == "You are an expert IT Administrator troubleshooting agent."

FALLBACK_RESPONSE == "I apologize, but I couldn't generate a response."

LIMIT_RESPONSE == "I've gathered a lot of information but reached my processing limit. Here's what I found so far based on the tool calls."

TOOL_FUNCTIONS ==
    { "get_system_config", "get_system_metrics", "get_recent_logs",
      "get_service_health", "get_recent_changes", "check_dependencies",
      "get_resource_details" }

\* Python's None, for the optional fields of a request and of a model message
None == "<None>"

(***************************************************************************)
(* JSON values.  A Python dict is a sequence of <<key, value>> pairs (it   *)
(* keeps insertion order); a value is a string, a list, a nested dict, an  *)
(* int, a bool or a float.  The floats of the program have at most two     *)
(* decimals (products of integers with 2.5, 1.2 and 0.04, rounded to two   *)
(* places): a float is kept as its number of hundredths.                   *)
(***************************************************************************)
JStr(s) == [t |-> "str", s |-> s, n |-> 0, items |-> <<>>]
JList(xs) == [t |-> "list", s |-> "", n |-> 0, items |-> xs]
JDict(pairs) == [t |-> "dict", s |-> "", n |-> 0, items |-> pairs]
JNull == [t |-> "null", s |-> "", n |-> 0, items |-> <<>>]
JInt(n) == [t |-> "int", s |-> "", n |-> n, items |-> <<>>]
JBool(b) == [t |-> "bool", s |-> "", n |-> IF b THEN 1 ELSE 0, items |-> <<>>]
JFloat(hundredths) == [t |-> "float", s |-> "", n |-> hundredths, items |-> <<>>]

\* [JStr(x) for x in xs]
JStrs(xs) == JList([ i \in 1..Len(xs) |-> JStr(xs[i]) ])

Keys(d) == { d.items[i][1] : i \in 1..Len(d.items) }

Get(d, k) == LET i == CHOOSE j \in 1..Len(d.items) : d.items[j][1] = k
             IN d.items[i][2]

Quote(s) == "\"" \o s \o "\""

\* str(n) of an int
IntText(n) == IF n < 0 THEN "-" \o ToString(0 - n) ELSE ToString(n)

\* repr(x) of a float of h hundredths, h >= 0: 2125.0, 112.5, 0.05
FloatText(h) ==
    ToString(h \div 100) \o "." \o
    (IF h % 10 = 0 THEN ToString((h % 100) \div 10)
     ELSE ToString((h % 100) \div 10) \o ToString(h % 10))

\* json.dumps(value): the text of a JSON value (default separators);
\* dumps_items(v, sep, i) is the text of the items of v from the i-th on
RECURSIVE json_dumps(_), dumps_items(_, _, _)
dumps_items(v, sep, i) ==
    IF i > Len(v.items) THEN ""
    ELSE (IF v.t = "dict"
          THEN Quote(v.items[i][1]) \o ": " \o json_dumps(v.items[i][2])
          ELSE json_dumps(v.items[i]))
         \o (IF i = Len(v.items) THEN "" ELSE sep \o dumps_items(v, sep, i + 1))

json_dumps(v) ==
    CASE v.t = "str"  -> Quote(v.s)
      [] v.t = "null" -> "null"
      [] v.t = "int"  -> IntText(v.n)
      [] v.t = "bool" -> IF v.n = 1 THEN "true" ELSE "false"
      [] v.t = "float" -> FloatText(v.n)
      [] v.t = "list" -> "[" \o dumps_items(v, ", ", 1) \o "]"
      [] v.t = "dict" -> "{" \o dumps_items(v, ", ", 1) \o "}"

\* The argument texts a model response may carry
ARGS_KNOWN    == "{\"resource_name\": \"web-app-prod\"}"
ARGS_EMPTY    == "{}"
ARGS_ARRAY    == "[]"
ARGS_TRUNC    == "{\"resource_name\": "
ARGS_UNHASH   == "{\"resource_name\": [\"web-app-prod\"]}"

\* The arguments the handlers are called with, per handler: <<name, dict>>
Kw(key, values) == { << <<key, v>> >> : v \in values }
Optional(key, values) == { << >> } \cup Kw(key, values)

ResourceNames ==
    { JStr(n) : n \in { "web-app-prod", "sql-db-main", "api-gateway", "redis-cache-prod",
                        "storage-prod", "unknown-vm", "Web-App-Prod", "" } }

HandlerCalls ==
    { <<"get_system_config", JDict(n \o t)>> :
        n \in Kw("resource_name", { JStr("web-app-prod"), JStr("unknown-vm"),
                                    JList(<< JStr("web-app-prod") >>) }),
        t \in Kw("resource_type", { JStr("container_app"), JStr("sql_database") }) }
    \cup { <<"get_system_metrics", JDict(n \o m)>> :
        n \in Kw("resource_name", { JStr("web-app-prod"), JStr("sql-db-main"),
                                    JStr("api-gateway"), JStr("storage-prod") }),
        m \in Optional("metric_type", { JStr("cpu"), JStr("memory"), JStr("latency"),
                                        JStr("requests"), JStr("errors"), JStr("disk") }) }
    \cup { <<"get_recent_logs", JDict(n \o v \o l)>> :
        n \in Kw("resource_name", { JStr("sql-db-main"), JStr("all") }),
        v \in Optional("severity", { JStr("error"), JStr("info"), JStr("debug") }),
        l \in Kw("limit", { JInt(0 - 1), JInt(0), JInt(2), JInt(3), JStr("2") }) }
    \cup { <<"get_service_health", JDict(v \o r)>> :
        v \in Kw("service", { JStr("Azure SQL"), JStr("Storage"), JStr("azure sql"), JNull }),
        r \in Optional("region", { JStr("eastus"), JStr("westus2"), JStr("EastUS") }) }
    \cup { <<"get_recent_changes", JDict(n \o d)>> :
        n \in Kw("resource_name", { JStr("web-app-prod") }),
        d \in Optional("days", { JInt(0 - 3), JInt(0), JInt(2), JInt(1000000), JNull }) }
    \cup { <<"check_dependencies", JDict(n)>> :
        n \in Kw("resource_name", { JStr("web-app-prod"), JStr("sql-db-main"),
                                    JStr("unknown-vm") }) }
    \cup { <<"get_resource_details", JDict(n)>> :
        n \in Kw("resource_name", ResourceNames \cup { JNull, JInt(7) }) }
    \cup { <<"get_resource_details", JDict(<< >>)>>,
           <<"check_dependencies", JDict(<< <<"name", JStr("web-app-prod")>> >>)>> }

\* The handler calls the model stub requests from the loop: one per handler
LoopCalls ==
    { <<"get_system_config", JDict(<< <<"resource_name", JStr("web-app-prod")>>,
                                      <<"resource_type", JStr("sql_database")>> >>)>>,
      <<"get_system_metrics", JDict(<< <<"resource_name", JStr("web-app-prod")>>,
                                       <<"metric_type", JStr("cpu")>> >>)>>,
      <<"get_recent_logs", JDict(<< <<"resource_name", JStr("sql-db-main")>>,
                                    <<"limit", JInt(2)>> >>)>>,
      <<"get_service_health", JDict(<< <<"service", JStr("Azure SQL")>> >>)>>,
      <<"get_recent_changes", JDict(<< <<"resource_name", JStr("web-app-prod")>>,
                                       <<"days", JInt(2)>> >>)>>,
      <<"check_dependencies", JDict(<< <<"resource_name", JStr("unknown-vm")>> >>)>>,
      <<"get_resource_details", JDict(<< <<"resource_name", JStr("unknown-vm")>> >>)>> }

\* json.loads(text) on those texts and on the texts of LoopCalls: the parsed
\* value, or JSONDecodeError
json_loads(text) ==
    CASE text = ARGS_KNOWN  ->
            [raised |-> FALSE, value |-> JDict(<< <<"resource_name", JStr("web-app-prod")>> >>)]
      [] text = ARGS_EMPTY  -> [raised |-> FALSE, value |-> JDict(<<>>)]
      [] text = ARGS_ARRAY  -> [raised |-> FALSE, value |-> JList(<<>>)]
      [] text = ARGS_UNHASH ->
            [raised |-> FALSE,
             value |-> JDict(<< <<"resource_name", JList(<<JStr("web-app-prod")>>)>> >>)]
      [] OTHER ->
            LET values == { call[2] : call \in { c \in LoopCalls : json_dumps(c[2]) = text } }
            IN IF values = { }
               THEN [raised |-> TRUE, value |-> JStr("JSONDecodeError")]
               ELSE [raised |-> FALSE, value |-> CHOOSE v \in values : TRUE]


(***************************************************************************)
(* The state.                                                              *)
(***************************************************************************)
VARIABLES
    conversations,      \* app.py `conversations`: stored id -> message sequence
    pc,                 \* where the event loop is: "idle", "model" (top of the
                        \* while loop), "tools" (inside the for loop), "done"
    conversation_id,    \* its local conversation_id
    iteration,          \* its local iteration
    assistant_message,  \* its local assistant_message (the last model message)
    tc,                 \* position of the for loop in assistant_message.tool_calls
    tool_calls_made,    \* its local tool_calls_made
    http,               \* what the last handler answered
    clock,              \* readings of datetime.utcnow() by /chat so far
    varied,             \* inputs so far that were not the plain ones
    asked,              \* model messages with tool requests
    tables,             \* tools/__init__.py: what has been written to MOCK_RESOURCES
                        \* and TOOL_DEFINITIONS since import
    invoked,            \* the handler call the last step made, if any
    container,          \* backend: the Cosmos container, id -> document
    backend,            \* backend: the request each task of the event loop is
                        \* serving, its position in it and its locals
    minted,             \* backend: uuid.uuid4() calls for a conversation so far
    ops                 \* backend: requests started so far

\* The state of the IT Admin agent, and the state of the RAG backend
agent_vars == << conversations, pc, conversation_id, iteration, assistant_message,
                 tc, tool_calls_made, http, clock, varied, asked, tables, invoked >>
backend_vars == << container, backend, minted, ops >>

vars == << agent_vars, backend_vars >>

chat_locals == << conversation_id, iteration, assistant_message, tc,
                  tool_calls_made >>

(***************************************************************************)
(* The mock backend the loop dispatches to (tools/__init__.py).            *)
(***************************************************************************)
\* One entry of MOCK_RESOURCES (lines 182-287); resource_group, subscription
\* and region are the same in every entry
Resource(type, tags, config, upstream, downstream) ==
    [ type |-> type,
      resource_group |-> "rg-production",
      subscription |-> "prod-subscription",
      region |-> "eastus",
      tags |-> tags,
      config |-> config,
      dependencies |-> [ upstream |-> JStrs(upstream), downstream |-> JStrs(downstream) ] ]

Tags(team, costCenter) ==
    JDict(<< <<"environment", JStr("production")>>, <<"team", JStr(team)>> >>
          \o (IF costCenter = None THEN <<>> ELSE << <<"cost-center", JStr(costCenter)>> >>))

MOCK_RESOURCES ==
    [ n \in { "web-app-prod", "sql-db-main", "api-gateway", "redis-cache-prod",
              "storage-prod" } |->
        CASE n = "web-app-prod" ->
               Resource("container_app", Tags("platform", "12345"),
                   JDict(<< <<"sku", JStr("D4")>>,
                            <<"replicas", JDict(<< <<"min", JInt(2)>>, <<"max", JInt(10)>>,
                                                   <<"current", JInt(4)>> >>)>>,
                            <<"cpu", JStr("2.0")>>,
                            <<"memory", JStr("4Gi")>>,
                            <<"image", JStr("myregistry.azurecr.io/webapp:v2.3.1")>>,
                            <<"ingress", JDict(<< <<"external", JBool(TRUE)>>,
                                                  <<"targetPort", JInt(8080)>> >>)>>,
                            <<"environment_variables",
                              JStrs(<<"DATABASE_URL", "REDIS_URL", "API_KEY">>)>>,
                            <<"managed_identity", JBool(TRUE)>> >>),
                   <<"sql-db-main", "redis-cache-prod", "storage-prod">>,
                   <<"api-gateway", "cdn-endpoint">>)
          [] n = "sql-db-main" ->
               Resource("sql_database", Tags("data", "12345"),
                   JDict(<< <<"sku", JStr("GP_Gen5_4")>>,
                            <<"tier", JStr("GeneralPurpose")>>,
                            <<"max_size_gb", JInt(256)>>,
                            <<"current_size_gb", JInt(127)>>,
                            <<"backup_retention_days", JInt(35)>>,
                            <<"geo_redundant_backup", JBool(TRUE)>>,
                            <<"connection_policy", JStr("Default")>>,
                            <<"tls_version", JStr("1.2")>> >>),
                   << >>,
                   <<"web-app-prod", "reporting-service", "etl-pipeline">>)
          [] n = "api-gateway" ->
               Resource("api_management", Tags("platform", None),
                   JDict(<< <<"sku", JStr("Premium")>>,
                            <<"capacity", JInt(2)>>,
                            <<"gateway_url", JStr("https://api.contoso.com")>>,
                            <<"developer_portal", JBool(TRUE)>>,
                            <<"virtual_network", JStr("internal")>>,
                            <<"certificates", JInt(3)>>,
                            <<"apis", JInt(12)>>,
                            <<"products", JInt(4)>> >>),
                   <<"web-app-prod", "auth-service">>,
                   <<"mobile-app", "partner-integrations">>)
          [] n = "redis-cache-prod" ->
               Resource("redis_cache", Tags("platform", None),
                   JDict(<< <<"sku", JStr("Premium")>>,
                            <<"capacity", JInt(1)>>,
                            <<"family", JStr("P")>>,
                            <<"shard_count", JInt(2)>>,
                            <<"tls_enabled", JBool(TRUE)>>,
                            <<"non_ssl_port_enabled", JBool(FALSE)>>,
                            <<"max_memory_policy", JStr("volatile-lru")>> >>),
                   << >>,
                   <<"web-app-prod", "session-service">>)
          [] n = "storage-prod" ->
               Resource("storage_account", Tags("platform", None),
                   JDict(<< <<"sku", JStr("Standard_GRS")>>,
                            <<"kind", JStr("StorageV2")>>,
                            <<"access_tier", JStr("Hot")>>,
                            <<"https_only", JBool(TRUE)>>,
                            <<"min_tls_version", JStr("TLS1_2")>>,
                            <<"blob_public_access", JBool(FALSE)>>,
                            <<"containers",
                              JStrs(<<"uploads", "exports", "backups", "logs">>)>> >>),
                   << >>,
                   <<"web-app-prod", "backup-service", "log-analytics">>) ]

\* TOOL_DEFINITIONS (lines 22-177): per function its name, the parameters it
\* declares and the ones it requires
Definition(name, properties, required) ==
    [ name |-> name, properties |-> properties, required |-> required ]

TOOL_DEFINITIONS ==
    << Definition("get_system_config", <<"resource_name", "resource_type">>,
                  <<"resource_name", "resource_type">>),
       Definition("get_system_metrics", <<"resource_name", "metric_type", "time_range">>,
                  <<"resource_name">>),
       Definition("get_recent_logs", <<"resource_name", "severity", "limit">>,
                  <<"resource_name">>),
       Definition("get_service_health", <<"service", "region">>, <<"service">>),
       Definition("get_recent_changes", <<"resource_name", "days">>, <<"resource_name">>),
       Definition("check_dependencies", <<"resource_name">>, <<"resource_name">>),
       Definition("get_resource_details", <<"resource_name">>, <<"resource_name">>) >>

\* The module-level tables of tools/__init__.py as they are after import.
\* The state keeps, per table, the entries that differ from the module text
\* above: none after import.
StaticTables == [ MOCK_RESOURCES |-> << >>, TOOL_DEFINITIONS |-> << >> ]

\* MOCK_RESOURCES[name] as the program finds it
ResourceAt(name) ==
    IF name \in DOMAIN tables.MOCK_RESOURCES
    THEN tables.MOCK_RESOURCES[name] ELSE MOCK_RESOURCES[name]

\* What a call leaves: the value returned, or the exception raised
Returned(v) == [raised |-> FALSE, value |-> v]
Raised(e) == [raised |-> TRUE, value |-> JStr(e)]

\* `resource_name in MOCK_RESOURCES` hashes the key: a list or a dict raises
Hashable(v) == v.t \notin { "list", "dict" }

InResources(v) == v.t = "str" /\ v.s \in DOMAIN MOCK_RESOURCES

\* str(value) inside an f-string: a str as it is, anything else by its repr
RECURSIVE PyRepr(_), repr_items(_, _)
repr_items(v, i) ==
    IF i > Len(v.items) THEN ""
    ELSE (IF v.t = "dict"
          THEN "'" \o v.items[i][1] \o "': " \o PyRepr(v.items[i][2])
          ELSE PyRepr(v.items[i]))
         \o (IF i = Len(v.items) THEN "" ELSE ", " \o repr_items(v, i + 1))

PyRepr(v) ==
    CASE v.t = "str"   -> "'" \o v.s \o "'"
      [] v.t = "null"  -> "None"
      [] v.t = "int"   -> IntText(v.n)
      [] v.t = "bool"  -> IF v.n = 1 THEN "True" ELSE "False"
      [] v.t = "float" -> FloatText(v.n)
      [] v.t = "list"  -> "[" \o repr_items(v, 1) \o "]"
      [] v.t = "dict"  -> "{" \o repr_items(v, 1) \o "}"

PyStr(v) == IF v.t = "str" THEN v.s ELSE PyRepr(v)

\* (mutant of get_system_config: the resource_type given is echoed for a
\* resource of the table too)
get_system_config_echoes_type(resource_name, resource_type) ==
    IF ~Hashable(resource_name) THEN Raised("TypeError: unhashable type")
    ELSE LET known == InResources(resource_name)
         IN Returned(JDict(<<
                <<"resource_name", resource_name>>,
                <<"resource_type", resource_type>>,
                <<"region", JStr("eastus")>>,
                <<"resource_group", JStr("rg-production")>>,
                <<"configuration",
                  IF known THEN ResourceAt(resource_name.s).config
                  ELSE JDict(<< <<"status", JStr("running")>>,
                                <<"sku", JStr("Standard")>> >>)>>,
                <<"tags", IF known THEN ResourceAt(resource_name.s).tags
                          ELSE JDict(<< <<"environment", JStr("production")>> >>)>> >>))

\* lines 484-510
get_system_config(resource_name, resource_type) ==
    IF ~Hashable(resource_name) THEN Raised("TypeError: unhashable type")
    ELSE IF InResources(resource_name)
    THEN LET resource == ResourceAt(resource_name.s)
         IN Returned(JDict(<<
                <<"resource_name", resource_name>>,
                <<"resource_type", JStr(resource.type)>>,
                <<"region", JStr(resource.region)>>,
                <<"resource_group", JStr(resource.resource_group)>>,
                <<"configuration", resource.config>>,
                <<"tags", resource.tags>> >>))
    ELSE Returned(JDict(<<
                <<"resource_name", resource_name>>,
                <<"resource_type", resource_type>>,
                <<"region", JStr("eastus")>>,
                <<"resource_group", JStr("rg-production")>>,
                <<"configuration", JDict(<<
                    <<"status", JStr("running")>>,
                    <<"sku", JStr("Standard")>>,
                    <<"note", JStr("Generic configuration - resource not found in detailed inventory")>> >>)>>,
                <<"tags", JDict(<< <<"environment", JStr("production")>> >>)>> >>))

\* random.randint(a, b) for the wide ranges, drawn at u of MaxUnit steps
\* from a to b
MaxUnit == 2
Units == 0..MaxUnit
randint(a, b, u) == a + ((b - a) * u) \div MaxUnit

\* random.randint(-5, 10), the jitter of current_percent
Jitters == (0 - 5)..10

\* The base values of _generate_metrics (lines 310, 320, 330)
BASE_CPU_ISSUE == 85
BASE_CPU == 35
BASE_MEM_ISSUE == 70
BASE_MEM == 45
BASE_LATENCY_ISSUE == 850
BASE_LATENCY == 45

\* (mutant of CpuBlock: the high base is 75)
CpuBlockLowBase(has_cpu_issue, jitter) ==
    LET base_cpu == IF has_cpu_issue THEN 75 ELSE BASE_CPU
    IN JDict(<< <<"current_percent", JInt(base_cpu + jitter)>>,
                <<"average_percent", JInt(base_cpu - 5)>>,
                <<"max_percent", JInt(base_cpu + 15)>>,
                <<"min_percent", JInt(base_cpu - 20)>>,
                <<"status", JStr(IF has_cpu_issue THEN "critical" ELSE "healthy")>> >>)

\* lines 309-317
CpuBlock(has_cpu_issue, jitter) ==
    LET base_cpu == IF has_cpu_issue THEN BASE_CPU_ISSUE ELSE BASE_CPU
    IN JDict(<< <<"current_percent", JInt(base_cpu + jitter)>>,
                <<"average_percent", JInt(base_cpu - 5)>>,
                <<"max_percent", JInt(base_cpu + 15)>>,
                <<"min_percent", JInt(base_cpu - 20)>>,
                <<"status", JStr(IF has_cpu_issue THEN "critical" ELSE "healthy")>> >>)

\* lines 319-327: round(base_mem * 0.04, 2) is base_mem * 4 hundredths
MemoryBlock(has_cpu_issue, jitter) ==
    LET base_mem == IF has_cpu_issue THEN BASE_MEM_ISSUE ELSE BASE_MEM
    IN JDict(<< <<"current_percent", JInt(base_mem + jitter)>>,
                <<"average_percent", JInt(base_mem - 3)>>,
                <<"used_gb", JFloat(base_mem * 4)>>,
                <<"available_gb", JFloat((100 - base_mem) * 4)>>,
                <<"status", JStr(IF has_cpu_issue THEN "warning" ELSE "healthy")>> >>)

\* lines 329-337: base * 2.5 and base * 1.2 are floats
LatencyBlock(has_latency_issue) ==
    LET base_latency == IF has_latency_issue THEN BASE_LATENCY_ISSUE ELSE BASE_LATENCY
    IN JDict(<< <<"p50_ms", JInt(base_latency)>>,
                <<"p95_ms", JFloat(base_latency * 250)>>,
                <<"p99_ms", JInt(base_latency * 4)>>,
                <<"average_ms", JFloat(base_latency * 120)>>,
                <<"status", JStr(IF has_latency_issue THEN "critical" ELSE "healthy")>> >>)

\* lines 339-345
RequestsBlock(has_error_spike, u) ==
    JDict(<< <<"total", JInt(randint(50000, 150000, u))>>,
             <<"successful", JInt(randint(45000, 145000, u))>>,
             <<"failed", JInt(IF has_error_spike THEN randint(100, 2000, u)
                              ELSE randint(10, 100, u))>>,
             <<"rate_per_second", JInt(randint(50, 200, u))>> >>)

\* lines 347-359: int(error_count * 0.4) is error_count * 4 \div 10 over the
\* ranges drawn from, round(error_count / 1000 * 100, 2) is error_count / 10
ErrorsBlock(has_error_spike, u) ==
    LET error_count == IF has_error_spike THEN randint(500, 2000, u)
                       ELSE randint(5, 50, u)
    IN JDict(<< <<"total", JInt(error_count)>>,
                <<"rate_percent", JFloat(error_count * 10)>>,
                <<"by_type", JDict(<< <<"500", JInt((error_count * 4) \div 10)>>,
                                      <<"502", JInt((error_count * 3) \div 10)>>,
                                      <<"503", JInt((error_count * 2) \div 10)>>,
                                      <<"timeout", JInt(error_count \div 10)>> >>)>>,
                <<"status", JStr(IF has_error_spike THEN "critical" ELSE "healthy")>> >>)

\* `x in ["a", "b"]` compares with ==: any value may be asked about
OneOf(v, names) == v.t = "str" /\ v.s \in names

\* lines 292-361; rnd holds the draws of random.randint
_generate_metrics(resource_name, metric_type, time_range, rnd) ==
    LET has_cpu_issue == resource_name = JStr("web-app-prod")
        has_latency_issue == resource_name = JStr("sql-db-main")
        has_error_spike == resource_name = JStr("api-gateway")
        data ==
            (IF OneOf(metric_type, { "cpu", "all" })
             THEN << <<"cpu", CpuBlock(has_cpu_issue, rnd.cpu)>> >> ELSE << >>)
            \o (IF OneOf(metric_type, { "memory", "all" })
                THEN << <<"memory", MemoryBlock(has_cpu_issue, rnd.mem)>> >> ELSE << >>)
            \o (IF OneOf(metric_type, { "latency", "all" })
                THEN << <<"latency", LatencyBlock(has_latency_issue)>> >> ELSE << >>)
            \o (IF OneOf(metric_type, { "requests", "all" })
                THEN << <<"requests", RequestsBlock(has_error_spike, rnd.u)>> >> ELSE << >>)
            \o (IF OneOf(metric_type, { "errors", "all" })
                THEN << <<"errors", ErrorsBlock(has_error_spike, rnd.u)>> >> ELSE << >>)
    IN JDict(<< <<"resource", resource_name>>,
                <<"time_range", time_range>>,
                <<"collected_at", JStr("utcnow")>>,
                <<"data", JDict(data)>> >>)

\* lines 513-515
get_system_metrics(resource_name, metric_type, time_range, rnd) ==
    Returned(_generate_metrics(resource_name, metric_type, time_range, rnd))

\* A timestamp, (now - timedelta(minutes=m)).isoformat(): the text, and in n
\* the minutes before now, by which the timestamps are ordered
JTime(m) ==
    [t |-> "str", s |-> "utcnow-" \o ToString(m) \o "m", n |-> m, items |-> <<>>]

\* lines 371-394: <<message, severity, source>>
Template(message, severity, source) ==
    [ message |-> message, severity |-> severity, source |-> source ]

error_templates ==
    << Template("Connection to database timed out after 30s", "error", "sql-db-main"),
       Template("Redis connection pool exhausted, waiting for available connection",
                "error", "redis-cache-prod"),
       Template("Request failed with status 503: Service Unavailable", "error", "api-gateway"),
       Template("Out of memory: Container killed by OOM killer", "error", "web-app-prod"),
       Template("SSL certificate validation failed for upstream", "error", "api-gateway"),
       Template("Rate limit exceeded for client IP 203.0.113.42", "error", "api-gateway") >>

warning_templates ==
    << Template("High CPU utilization detected (>80%)", "warning", "web-app-prod"),
       Template("Query execution time exceeded threshold (>5s)", "warning", "sql-db-main"),
       Template("Cache miss rate above normal (>30%)", "warning", "redis-cache-prod"),
       Template("Slow response detected from downstream service", "warning", "web-app-prod"),
       Template("Certificate expires in 14 days", "warning", "api-gateway"),
       Template("Storage account approaching 80% capacity", "warning", "storage-prod") >>

info_templates ==
    << Template("Successfully scaled to 4 replicas", "info", "web-app-prod"),
       Template("Deployment completed: v2.3.1", "info", "web-app-prod"),
       Template("Database backup completed successfully", "info", "sql-db-main"),
       Template("Health check passed", "info", "web-app-prod"),
       Template("Configuration reloaded", "info", "api-gateway") >>

\* (mutant of SortLatestFirst: reverse=True is left out, the oldest first)
RECURSIVE SortOldestFirst(_)
SortOldestFirst(xs) ==
    IF Len(xs) <= 1 THEN xs
    ELSE LET rest == SortOldestFirst(Tail(xs))
             x == Head(xs)
             before == { i \in 1..Len(rest) : Get(rest[i], "timestamp").n > Get(x, "timestamp").n }
             k == Cardinality(before)
         IN SubSeq(rest, 1, k) \o << x >> \o SubSeq(rest, k + 1, Len(rest))

\* list.sort(key=timestamp, reverse=True): stable, the latest first, which
\* is the fewest minutes before now first
RECURSIVE SortLatestFirst(_)
SortLatestFirst(xs) ==
    IF Len(xs) <= 1 THEN xs
    ELSE LET rest == SortLatestFirst(Tail(xs))
             x == Head(xs)
             before == { i \in 1..Len(rest) : Get(rest[i], "timestamp").n < Get(x, "timestamp").n }
             k == Cardinality(before)
         IN SubSeq(rest, 1, k) \o << x >> \o SubSeq(rest, k + 1, Len(rest))

Min(a, b) == IF a <= b THEN a ELSE b

\* An int argument: bool is a subclass of int
IsInt(v) == v.t \in { "int", "bool" }

\* lines 364-425; rnd.a and rnd.b seed the draws of random.choice and
\* random.randint for the entries
_generate_logs(resource_name, severity, limit, rnd) ==
    LET by_severity ==
            (IF OneOf(severity, { "all", "error" }) THEN error_templates ELSE << >>)
            \o (IF OneOf(severity, { "all", "warning" }) THEN warning_templates ELSE << >>)
            \o (IF OneOf(severity, { "all", "info" }) THEN info_templates ELSE << >>)
        Keep(template) == JStr(template.source) = resource_name
                             \/ template.source = "web-app-prod"
        templates_to_use == IF resource_name # JStr("all")
                            THEN SelectSeq(by_severity, Keep) ELSE by_severity
        count == Min(limit.n, Len(templates_to_use) * 3)
        Entry(i) ==
            LET template == templates_to_use[((rnd.a + i * (rnd.b + 1)) % Len(templates_to_use)) + 1]
            IN JDict(<< <<"timestamp", JTime(randint(1, 360, (rnd.a + i * rnd.b) % (MaxUnit + 1)))>>,
                        <<"severity", JStr(template.severity)>>,
                        <<"message", JStr(template.message)>>,
                        <<"source", JStr(template.source)>>,
                        <<"correlation_id",
                          JStr("corr-" \o ToString(randint(10000, 99999, (rnd.b + i) % (MaxUnit + 1))))>> >>)
        logs == SortLatestFirst([ i \in 1..(IF count > 0 THEN count ELSE 0) |-> Entry(i) ])
    IN \* logs[:limit]
       IF limit.n >= 0 THEN SubSeq(logs, 1, Min(limit.n, Len(logs)))
       ELSE SubSeq(logs, 1, IF Len(logs) + limit.n > 0 THEN Len(logs) + limit.n ELSE 0)

\* lines 518-526; min(limit, ...) and range(...) raise TypeError unless
\* limit is an int
get_recent_logs(resource_name, severity, limit, rnd) ==
    IF ~IsInt(limit) THEN Raised("TypeError: limit")
    ELSE LET logs == _generate_logs(resource_name, severity, limit, rnd)
         IN Returned(JDict(<< <<"resource", resource_name>>,
                              <<"severity_filter", severity>>,
                              <<"count", JInt(Len(logs))>>,
                              <<"logs", JList(logs)>> >>))

\* (mutant of get_service_health: the incident is reported for every region)
get_service_health_any_region(service, region) ==
    Returned(JDict(<<
        <<"service", service>>,
        <<"region", region>>,
        <<"status", JStr(IF service = JStr("Azure SQL") THEN "degraded" ELSE "healthy")>>,
        <<"active_incidents",
          JList(IF service = JStr("Azure SQL")
                THEN << JDict(<< <<"incident_id", JStr("SQL-2024-0215")>> >>) >>
                ELSE << >>)>> >>))

\* lines 529-562
get_service_health(service, region) ==
    IF service = JStr("Azure SQL") /\ region = JStr("eastus")
    THEN Returned(JDict(<<
            <<"service", service>>,
            <<"region", region>>,
            <<"status", JStr("degraded")>>,
            <<"active_incidents", JList(<< JDict(<<
                <<"incident_id", JStr("SQL-2024-0215")>>,
                <<"title", JStr("Intermittent connectivity issues")>>,
                <<"status", JStr("investigating")>>,
                <<"start_time", JTime(120)>>,
                <<"description", JStr("Some customers may experience intermittent connection timeouts to Azure SQL databases in East US region.")>>,
                <<"impacted_services", JStrs(<<"Azure SQL Database", "SQL Managed Instance">>)>>,
                <<"updates", JList(<< JDict(<<
                    <<"time", JTime(30)>>,
                    <<"message", JStr("Engineering team has identified the root cause and is implementing a fix.")>> >>) >>)>>
              >>) >>)>> >>))
    ELSE Returned(JDict(<<
            <<"service", service>>,
            <<"region", region>>,
            <<"status", JStr("healthy")>>,
            <<"active_incidents", JList(<< >>)>>,
            <<"message", JStr("No known issues affecting " \o PyStr(service)
                              \o " in " \o PyStr(region))>> >>))

\* lines 434-465: the change templates, in order
ChangeTemplate(type, description, user, details) ==
    << <<"type", JStr(type)>>, <<"description", JStr(description)>>,
       <<"user", JStr(user)>>, <<"details", JDict(details)>> >>

change_templates ==
    << ChangeTemplate("deployment", "Deployed new version v2.3.1",
                      "deploy-pipeline@contoso.com",
                      << <<"old_version", JStr("v2.3.0")>>, <<"new_version", JStr("v2.3.1")>>,
                         <<"replicas", JInt(4)>> >>),
       ChangeTemplate("configuration", "Updated environment variable DATABASE_TIMEOUT",
                      "john.smith@contoso.com",
                      << <<"setting", JStr("DATABASE_TIMEOUT")>>, <<"old_value", JStr("30")>>,
                         <<"new_value", JStr("60")>> >>),
       ChangeTemplate("scaling", "Auto-scaled from 2 to 4 replicas", "system",
                      << <<"trigger", JStr("cpu_threshold")>>, <<"old_replicas", JInt(2)>>,
                         <<"new_replicas", JInt(4)>> >>),
       ChangeTemplate("configuration", "Increased max connections pool size",
                      "jane.doe@contoso.com",
                      << <<"setting", JStr("MAX_POOL_SIZE")>>, <<"old_value", JStr("100")>>,
                         <<"new_value", JStr("200")>> >>),
       ChangeTemplate("security", "Rotated managed identity credentials",
                      "security-automation@contoso.com",
                      << <<"credential_type", JStr("managed_identity")>> >>) >>

\* line 431: now = datetime.utcnow(), in whole days since datetime.min
\* (0001-01-01); the time of day is left out
now == 739924

\* lines 428-479; the timestamp is days and hours before now.
\* now - timedelta(days=d, hours=h) raises OverflowError when it is before
\* datetime.min.
_generate_changes(resource_name, days, rnd) ==
    LET count == Min(days.n, Len(change_templates))
        Days(i) == randint(0, days.n, (rnd.a + i) % (MaxUnit + 1))
        Hours(i) == randint(0, 23, (rnd.b + i) % (MaxUnit + 1))
        Change(i) ==
            JDict(<< <<"timestamp", JTime((Days(i) * 24 + Hours(i)) * 60)>>,
                     <<"resource", resource_name>> >> \o change_templates[i])
    IN IF \E i \in 1..count : Days(i) * 24 + Hours(i) > now * 24
       THEN Raised("OverflowError: date value out of range")
       ELSE Returned(SortLatestFirst([ i \in 1..(IF count > 0 THEN count ELSE 0) |-> Change(i) ]))

\* lines 565-573; min(days, ...) and range(...) raise TypeError unless days
\* is an int
get_recent_changes(resource_name, days, rnd) ==
    IF ~IsInt(days) THEN Raised("TypeError: days")
    ELSE LET changes == _generate_changes(resource_name, days, rnd)
         IN IF changes.raised THEN changes
            ELSE Returned(JDict(<< <<"resource", resource_name>>,
                                   <<"time_period_days", days>>,
                                   <<"change_count", JInt(Len(changes.value))>>,
                                   <<"changes", JList(changes.value)>> >>))

\* (mutant of check_dependencies: both counts are taken from the downstream
\* list)
check_dependencies_one_count(resource_name) ==
    IF ~Hashable(resource_name) THEN Raised("TypeError: unhashable type")
    ELSE IF InResources(resource_name)
    THEN LET deps == ResourceAt(resource_name.s).dependencies
         IN Returned(JDict(<<
                <<"resource", resource_name>>,
                <<"upstream_dependencies", deps.upstream>>,
                <<"downstream_dependencies", deps.downstream>>,
                <<"upstream_count", JInt(Len(deps.downstream.items))>>,
                <<"downstream_count", JInt(Len(deps.downstream.items))>> >>))
    ELSE Returned(JDict(<<
                <<"resource", resource_name>>,
                <<"upstream_dependencies", JList(<< >>)>>,
                <<"downstream_dependencies", JList(<< >>)>> >>))

\* lines 576-594
check_dependencies(resource_name) ==
    IF ~Hashable(resource_name) THEN Raised("TypeError: unhashable type")
    ELSE IF InResources(resource_name)
    THEN LET deps == ResourceAt(resource_name.s).dependencies
         IN Returned(JDict(<<
                <<"resource", resource_name>>,
                <<"upstream_dependencies", deps.upstream>>,
                <<"downstream_dependencies", deps.downstream>>,
                <<"upstream_count", JInt(Len(deps.upstream.items))>>,
                <<"downstream_count", JInt(Len(deps.downstream.items))>> >>))
    ELSE Returned(JDict(<<
                <<"resource", resource_name>>,
                <<"upstream_dependencies", JList(<< >>)>>,
                <<"downstream_dependencies", JList(<< >>)>>,
                <<"message", JStr("Resource not found in dependency map")>> >>))

\* (mutant of get_resource_details: a missing resource is answered without
\* the suggestion)
get_resource_details_no_suggestion(resource_name) ==
    IF InResources(resource_name)
    THEN Returned(JDict(<< <<"resource_name", resource_name>>,
                           <<"resource_id", JStr("/subscriptions/")>> >>))
    ELSE Returned(JDict(<< <<"resource_name", resource_name>>,
                           <<"error", JStr("Resource not found in inventory")>> >>))

\* lines 597-619; the two timestamps are readings of the clock and are kept
\* as the expressions that compute them
get_resource_details(resource_name) ==
    IF ~Hashable(resource_name) THEN Raised("TypeError: unhashable type")
    ELSE IF InResources(resource_name)
    THEN LET resource == ResourceAt(resource_name.s)
         IN Returned(JDict(<<
                <<"resource_name", resource_name>>,
                <<"resource_type", JStr(resource.type)>>,
                <<"resource_group", JStr(resource.resource_group)>>,
                <<"subscription", JStr(resource.subscription)>>,
                <<"region", JStr(resource.region)>>,
                <<"tags", resource.tags>>,
                <<"provisioning_state", JStr("Succeeded")>>,
                <<"created_at", JStr("utcnow-180d")>>,
                <<"last_modified", JStr("utcnow-2h")>>,
                <<"resource_id",
                  JStr("/subscriptions/" \o resource.subscription
                       \o "/resourceGroups/" \o resource.resource_group
                       \o "/providers/Microsoft.App/containerApps/" \o resource_name.s)>> >>))
    ELSE Returned(JDict(<<
                <<"resource_name", resource_name>>,
                <<"error", JStr("Resource not found in inventory")>>,
                <<"suggestion",
                  JStr("Check resource name spelling or verify the resource exists")>> >>))

\* The draws of random a handler call makes
NoDraw == [ cpu |-> 0, mem |-> 0, u |-> 0, a |-> 0, b |-> 0 ]
MemJitters == { 0 - 5, 10 }
Draws(function_name) ==
    CASE function_name = "get_system_metrics" ->
            { [ NoDraw EXCEPT !.cpu = j, !.mem = k, !.u = u ] :
                j \in Jitters, k \in MemJitters, u \in Units }
      [] function_name \in { "get_recent_logs", "get_recent_changes" } ->
            { [ NoDraw EXCEPT !.a = a, !.b = b ] : a \in Units, b \in Units }
      [] OTHER -> { NoDraw }

Range(xs) == { xs[i] : i \in 1..Len(xs) }

\* The `def` lines of the handlers (484, 513, 518, 529, 565, 576, 597): the
\* parameters, and the ones without a default
Signature(function_name) ==
    CASE function_name = "get_system_config" ->
            [ parameters |-> <<"resource_name", "resource_type">>,
              required |-> <<"resource_name", "resource_type">> ]
      [] function_name = "get_system_metrics" ->
            [ parameters |-> <<"resource_name", "metric_type", "time_range">>,
              required |-> <<"resource_name">> ]
      [] function_name = "get_recent_logs" ->
            [ parameters |-> <<"resource_name", "severity", "limit">>,
              required |-> <<"resource_name">> ]
      [] function_name = "get_service_health" ->
            [ parameters |-> <<"service", "region">>, required |-> <<"service">> ]
      [] function_name = "get_recent_changes" ->
            [ parameters |-> <<"resource_name", "days">>, required |-> <<"resource_name">> ]
      [] function_name \in { "check_dependencies", "get_resource_details" } ->
            [ parameters |-> <<"resource_name">>, required |-> <<"resource_name">> ]

\* The value a parameter is bound to: the keyword's, or the default
Arg(function_args, name, default) ==
    IF name \in Keys(function_args) THEN Get(function_args, name) ELSE default

\* TOOL_FUNCTIONS[function_name](**function_args): binding the keyword
\* arguments raises TypeError when function_args is no mapping or its keys
\* are not the handler's parameters
CallToolFunction(function_name, function_args, rnd) ==
    IF function_args.t # "dict"
    THEN Raised("TypeError: argument after ** must be a mapping")
    ELSE IF \E k \in Keys(function_args) : k \notin Range(Signature(function_name).parameters)
    THEN Raised("TypeError: " \o function_name \o "() got an unexpected keyword argument")
    ELSE IF \E k \in Range(Signature(function_name).required) : k \notin Keys(function_args)
    THEN Raised("TypeError: " \o function_name \o "() missing required positional argument")
    ELSE LET resource_name == Arg(function_args, "resource_name", JNull)
         IN CASE function_name = "get_system_config" ->
                    get_system_config(resource_name, Get(function_args, "resource_type"))
              [] function_name = "get_system_metrics" ->
                    get_system_metrics(resource_name,
                                       Arg(function_args, "metric_type", JStr("all")),
                                       Arg(function_args, "time_range", JStr("1h")), rnd)
              [] function_name = "get_recent_logs" ->
                    get_recent_logs(resource_name,
                                    Arg(function_args, "severity", JStr("all")),
                                    Arg(function_args, "limit", JInt(20)), rnd)
              [] function_name = "get_service_health" ->
                    get_service_health(Get(function_args, "service"),
                                       Arg(function_args, "region", JStr("eastus")))
              [] function_name = "get_recent_changes" ->
                    get_recent_changes(resource_name, Arg(function_args, "days", JInt(7)), rnd)
              [] function_name = "check_dependencies" -> check_dependencies(resource_name)
              [] function_name = "get_resource_details" -> get_resource_details(resource_name)

\* (mutant of HandlerWrites: get_system_config tags the table entry it read)
HandlerWritesTags(function_name, function_args) ==
    IF function_name = "get_system_config"
          /\ InResources(Arg(function_args, "resource_name", JNull))
    THEN LET name == Get(function_args, "resource_name").s
         IN [ tables EXCEPT !.MOCK_RESOURCES =
                [ n \in { name } |->
                    [ ResourceAt(name) EXCEPT
                        !.tags = JDict(@.items \o << <<"read", JBool(TRUE)>> >>) ] ] ]
    ELSE tables

\* What a handler call leaves of the module-level tables: no handler assigns
\* to MOCK_RESOURCES or TOOL_DEFINITIONS or to an object reached from them
\* (lines 484-619)
HandlerWrites(function_name, function_args) == tables

\* The handler call a step makes, if any
NoCall == [ function_name |-> "", function_args |-> JNull ]
Call(function_name, function_args) ==
    [ function_name |-> function_name, function_args |-> function_args ]

(***************************************************************************)
(* Messages, requests and responses.                                       *)
(***************************************************************************)
\* A stored message.  A key the code leaves out is <<>> (tool_calls) or None
\* (tool_call_id).
Message(role, content) ==
    [role |-> role, content |-> content, tool_calls |-> <<>>, tool_call_id |-> None]

\* A tool request of a model response (tool_call.id, tool_call.function.*)
ToolRequest(id, name, arguments) ==
    [id |-> id, function |-> [name |-> name, arguments |-> arguments]]

\* The tool_calls entry the code stores for a request (app.py, lines 211-218)
StoredToolCall(tool_call) ==
    [ id |-> tool_call.id, type |-> "function",
      function |-> [ name |-> tool_call.function.name,
                     arguments |-> tool_call.function.arguments ] ]

\* ToolCall(tool_name=..., arguments=..., result=...) of the tool trace
ToolCall(tool_name, arguments, result) ==
    [tool_name |-> tool_name, arguments |-> arguments, result |-> result]

\* The handler's answer: ChatResponse (200), HTTPException (404, 500), or none yet
NoResponse ==
    [ endpoint |-> "", status |-> 0, response |-> "", conversation_id |-> "",
      tool_calls |-> <<>>, detail |-> "" ]

ChatResponse(response, cid, tool_calls) ==
    [ endpoint |-> "/chat", status |-> 200, response |-> response,
      conversation_id |-> cid, tool_calls |-> tool_calls, detail |-> "" ]

HTTPException(endpoint, status, detail) ==
    [ endpoint |-> endpoint, status |-> status, response |-> "", conversation_id |-> "",
      tool_calls |-> <<>>, detail |-> detail ]

\* assistant_message before the first model message of a call binds it
NoMessage == [content |-> "<unbound>", tool_calls |-> <<>>]

(***************************************************************************)
(* The inputs.                                                             *)
(***************************************************************************)
\* request.conversation_id: absent, empty, or a client's identifier; a client
\* may send an identifier of the shape the service mints
GivenIds == { None, "", "conv_2" }

Messages == { "Check web-app-prod" }

\* request.context: absent, an empty mapping, a mapping
CONTEXT_ENV == JDict(<< <<"env", JStr("prod")>> >>)
Contexts == { JNull, JDict(<<>>), CONTEXT_ENV }

\* json.dumps(context, indent=2) of the contexts above
json_dumps_indent2(v) ==
    IF v.items = <<>> THEN "{}"
    ELSE "{\n  " \o dumps_items(v, ",\n  ", 1) \o "\n}"

\* The content of a model message
Contents == { None, "", "The CPU usage on web-app-prod is at 85%." }

\* The stub numbers the requests of a response: the identifier of the i-th
ToolCallId(i) == "call_" \o ToString(i)

\* What a request asks for, <<name, arguments>>: a handler that answers, a
\* name in no table, a handler that raises, arguments that do not parse,
\* arguments that are not the handler's, arguments that are no mapping
Asks ==
    { <<"get_resource_details", ARGS_KNOWN>>, <<"restart_service", ARGS_KNOWN>>,
      <<"get_resource_details", ARGS_UNHASH>>, <<"restart_service", ARGS_TRUNC>>,
      <<"get_resource_details", ARGS_EMPTY>>, <<"get_resource_details", ARGS_ARRAY>> }

RECURSIVE SeqsUpTo(_, _)
SeqsUpTo(S, n) ==
    IF n = 0 THEN { <<>> }
    ELSE LET shorter == SeqsUpTo(S, n - 1)
         IN shorter \cup { Append(q, x) : q \in { r \in shorter : Len(r) = n - 1 }, x \in S }

Batches ==
    { [ i \in 1..Len(q) |-> ToolRequest(ToolCallId(i), q[i][1], q[i][2]) ] :
        q \in SeqsUpTo(Asks, MaxBatch) \ { <<>> } }

\* The message the model stub repeats: one request the handler answers
SteadyMessage ==
    [ content |-> None,
      tool_calls |-> << ToolRequest(ToolCallId(1), "get_resource_details", ARGS_KNOWN) >> ]

\* The model messages that carry tool requests
ToolMessages == { [content |-> None, tool_calls |-> b] : b \in Batches }

\* The model messages that carry none (tool_calls None or empty)
FinalMessages == { [content |-> c, tool_calls |-> <<>>] : c \in Contents }

(***************************************************************************)
(* The RAG backend (src/src/backend): documents of the Cosmos container    *)
(* and the requests the event loop is serving.  Its handlers await the     *)
(* Cosmos and OpenAI clients, so the requests in progress interleave at    *)
(* their awaits.  The timestamps (created_at, updated_at, timestamp) and   *)
(* the uuid of a message are left out of the documents.                    *)
(***************************************************************************)
Tasks == 1..MaxTasks

\* cosmos_service.py lines 76-83: the document of a new conversation
NewConversation(id, user_id) ==
    [ id |-> id, userId |-> user_id, title |-> "New Conversation", messages |-> << >> ]

\* No document: the local `conversation` before it is bound
NoDocument == NewConversation("", "")

\* No request: a task of the event loop that serves none
NoBackendRequest == [ conversation_id |-> None, user_id |-> "", message |-> "" ]

\* What a backend handler answers: nothing yet, a body (200), an HTTPException
NoAnswer == [ status |-> 0, message |-> "", conversation_id |-> "", detail |-> "",
              body |-> NoDocument ]

IdleTask ==
    [ op |-> "none", pc |-> "idle", request |-> NoBackendRequest,
      conversation |-> NoDocument, history |-> << >>, response |-> "",
      answer |-> NoAnswer ]

Init ==
    /\ conversations = << >>
    /\ pc = "idle"
    /\ conversation_id = ""
    /\ iteration = 0
    /\ assistant_message = NoMessage
    /\ tc = 0
    /\ tool_calls_made = << >>
    /\ http = NoResponse
    /\ clock = 0
    /\ varied = 0
    /\ asked = 0
    /\ tables = StaticTables
    /\ invoked = NoCall
    /\ container = << >>
    /\ backend = [ t \in Tasks |-> IdleTask ]
    /\ minted = 0
    /\ ops = 0

Stored == DOMAIN conversations

\* The event loop is free: no handler is in progress
Free == pc \in { "idle", "done" }

(***************************************************************************)
(* POST /chat, app.py lines 157-272.                                       *)
(***************************************************************************)
\* f"conv_{datetime.utcnow().strftime(...)}" at clock reading t
MintConversationId(t) == "conv_" \o ToString(t)

\* (mutant of ResolveConversationId: the given identifier is never used)
ResolveAlwaysMint(req, t) == MintConversationId(t)

\* line 166: request.conversation_id or the minted identifier
ResolveConversationId(req, t) ==
    IF req.conversation_id \notin { None, "" }
    THEN req.conversation_id
    ELSE MintConversationId(t)

\* (mutant of OpenConversation: the conversation is seeded on every call)
OpenConversationSeedsAgain(store, cid) ==
    << Message("system", SYSTEM_PROMPT) >>

\* lines 168-171: the conversation the call works on
OpenConversation(store, cid) ==
    IF cid \notin DOMAIN store
    THEN << Message("system", SYSTEM_PROMPT) >>
    ELSE store[cid]

\* (mutant of UserMessage: the context is left out of the content)
UserMessageWithoutContext(req) == Message("user", req.message)

\* lines 174-182: the user message, the context rendered onto its content
UserMessage(req) ==
    Message("user",
            req.message \o
            (IF req.context.t = "dict" /\ req.context.items # << >>
             THEN "\n\nEnvironment context: " \o json_dumps_indent2(req.context)
             ELSE ""))

Put(store, cid, msgs) ==
    [ c \in DOMAIN store \cup { cid } |-> IF c = cid THEN msgs ELSE store[c] ]

\* (mutant of AppendMessage: the message reaches every stored conversation)
AppendMessageToAll(store, cid, msg) ==
    [ c \in DOMAIN store |-> Append(store[c], msg) ]

AppendMessage(store, cid, msg) == Put(store, cid, Append(store[cid], msg))

\* (mutant of ChatStart: the trace of the previous call is kept)
ChatStartKeepsTrace(req) ==
    /\ Free
    /\ clock < MaxTurns
    /\ clock' = clock + 1
    /\ LET cid == ResolveConversationId(req, clock')
       IN /\ conversation_id' = cid
          /\ conversations' =
                Put(conversations, cid,
                    Append(OpenConversation(conversations, cid), UserMessage(req)))
    /\ iteration' = 0
    /\ assistant_message' = NoMessage
    /\ tc' = 0
    /\ UNCHANGED tool_calls_made
    /\ http' = NoResponse
    /\ pc' = "model"
    /\ IF req.context = JNull
       THEN UNCHANGED varied
       ELSE varied < MaxVaried /\ varied' = varied + 1
    /\ UNCHANGED asked
    /\ invoked' = NoCall
    /\ UNCHANGED << tables, backend_vars >>

\* lines 164-190
ChatStart(req) ==
    /\ Free
    /\ clock < MaxTurns
    /\ clock' = clock + 1
    /\ LET cid == ResolveConversationId(req, clock')
       IN /\ conversation_id' = cid
          /\ conversations' =
                Put(conversations, cid,
                    Append(OpenConversation(conversations, cid), UserMessage(req)))
    /\ iteration' = 0
    /\ assistant_message' = NoMessage
    /\ tc' = 0
    /\ tool_calls_made' = << >>
    /\ http' = NoResponse
    /\ pc' = "model"
    /\ IF req.context = JNull
       THEN UNCHANGED varied
       ELSE varied < MaxVaried /\ varied' = varied + 1
    /\ UNCHANGED asked
    /\ invoked' = NoCall
    /\ UNCHANGED << tables, backend_vars >>

\* (mutant of LoopContinues: one iteration more)
LoopContinuesOffByOne(i) == i <= max_iterations

\* line 192: the loop condition
LoopContinues(i) == i < max_iterations

\* (mutant of ModelCallFails: the failing call takes back the last message)
ModelCallFailsRollsBack ==
    /\ pc = "model"
    /\ LoopContinues(iteration)
    /\ iteration' = iteration + 1
    /\ http' = HTTPException("/chat", 500, "model call failed")
    /\ pc' = "done"
    /\ conversations' =
            Put(conversations, conversation_id,
                SubSeq(conversations[conversation_id], 1,
                       Len(conversations[conversation_id]) - 1))
    /\ UNCHANGED << conversation_id, assistant_message, tc, tool_calls_made, clock,
                    varied, asked >>
    /\ invoked' = NoCall
    /\ UNCHANGED << tables, backend_vars >>

\* lines 192-200, 270-272: the model call raises; the handler answers 500
ModelCallFails ==
    /\ pc = "model"
    /\ LoopContinues(iteration)
    /\ iteration' = iteration + 1
    /\ http' = HTTPException("/chat", 500, "model call failed")
    /\ pc' = "done"
    /\ UNCHANGED << conversations, conversation_id, assistant_message, tc,
                    tool_calls_made, clock, varied, asked >>
    /\ invoked' = NoCall
    /\ UNCHANGED << tables, backend_vars >>

\* lines 207-221: the assistant message stored for a message with tool calls
AssistantWithCalls(m) ==
    [ role |-> "assistant",
      content |-> IF m.content = None THEN "" ELSE m.content,
      tool_calls |-> [ i \in 1..Len(m.tool_calls) |-> StoredToolCall(m.tool_calls[i]) ],
      tool_call_id |-> None ]

\* lines 192-221: the model answers with tool requests
ModelRequestsTools(m) ==
    /\ pc = "model"
    /\ LoopContinues(iteration)
    /\ IF m = SteadyMessage
       THEN UNCHANGED varied
       ELSE varied < MaxVaried /\ varied' = varied + 1
    /\ iteration' = iteration + 1
    /\ assistant_message' = m
    /\ conversations' = AppendMessage(conversations, conversation_id, AssistantWithCalls(m))
    /\ tc' = 1
    /\ pc' = "tools"
    /\ asked < MaxAsked
    /\ asked' = asked + 1
    /\ UNCHANGED << conversation_id, tool_calls_made, http, clock >>
    /\ invoked' = NoCall
    /\ UNCHANGED << tables, backend_vars >>

\* (mutant of FinalResponse: an empty content is kept)
FinalResponseNoneOnly(m) ==
    IF m.content = None THEN FALLBACK_RESPONSE ELSE m.content

\* line 249: the content, or the fallback when it is None or empty
FinalResponse(m) ==
    IF m.content \in { None, "" } THEN FALLBACK_RESPONSE ELSE m.content

\* (mutant of ModelAnswers: the content is stored as in the branch with tool
\* calls, `content or ""`, while the reply carries the fallback)
ModelAnswersStoresContent(m) ==
    /\ pc = "model"
    /\ LoopContinues(iteration)
    /\ m \in FinalMessages
    /\ iteration' = iteration + 1
    /\ assistant_message' = m
    /\ conversations' =
            AppendMessage(conversations, conversation_id,
                          Message("assistant", IF m.content = None THEN "" ELSE m.content))
    /\ http' = ChatResponse(FinalResponse(m), conversation_id, tool_calls_made)
    /\ pc' = "done"
    /\ UNCHANGED << conversation_id, tc, tool_calls_made, clock, varied, asked >>
    /\ invoked' = NoCall
    /\ UNCHANGED << tables, backend_vars >>

\* lines 192-204, 247-261: the model answers without tool requests
ModelAnswers(m) ==
    /\ pc = "model"
    /\ LoopContinues(iteration)
    /\ m \in FinalMessages
    /\ iteration' = iteration + 1
    /\ assistant_message' = m
    /\ conversations' =
            AppendMessage(conversations, conversation_id,
                          Message("assistant", FinalResponse(m)))
    /\ http' = ChatResponse(FinalResponse(m), conversation_id, tool_calls_made)
    /\ pc' = "done"
    /\ UNCHANGED << conversation_id, tc, tool_calls_made, clock, varied, asked >>
    /\ invoked' = NoCall
    /\ UNCHANGED << tables, backend_vars >>

\* lines 225-239: one pass of the for loop up to the ToolCall record: the
\* record, or the exception that leaves the handler's try block
RunToolCall(tool_call, rnd) ==
    LET function_name == tool_call.function.name
        parsed == json_loads(tool_call.function.arguments)
    IN IF parsed.raised THEN [ raised |-> TRUE, value |-> parsed.value, call |-> NoCall ]
       ELSE LET function_args == parsed.value
                called == IF function_name \in TOOL_FUNCTIONS
                          THEN CallToolFunction(function_name, function_args, rnd)
                          ELSE Returned(JDict(<< <<"error",
                                    JStr("Unknown tool: " \o function_name)>> >>))
                call == IF function_name \in TOOL_FUNCTIONS
                        THEN Call(function_name, function_args) ELSE NoCall
            IN IF called.raised
               THEN [ raised |-> TRUE, value |-> called.value, call |-> call ]
               ELSE IF function_args.t # "dict"
               THEN \* ToolCall.arguments is declared Dict[str, Any]
                    [ raised |-> TRUE, value |-> JStr("ValidationError: arguments"),
                      call |-> call ]
               ELSE [ raised |-> FALSE,
                      value |-> ToolCall(function_name, function_args, called.value),
                      call |-> call ]

\* (mutant of ToolMessage: every tool message names the first request)
ToolMessageFirstId(tool_call, result) ==
    [ role |-> "tool", content |-> json_dumps(result), tool_calls |-> << >>,
      tool_call_id |-> ToolCallId(1) ]

\* (mutant of ToolMessage: the tool message names the function, not the request)
ToolMessageByName(tool_call, result) ==
    [ role |-> "tool", content |-> json_dumps(result), tool_calls |-> << >>,
      tool_call_id |-> tool_call.function.name ]

\* lines 242-246: the tool message of a request
ToolMessage(tool_call, result) ==
    [ role |-> "tool", content |-> json_dumps(result), tool_calls |-> << >>,
      tool_call_id |-> tool_call.id ]

\* lines 224-246, 270-272: one pass of the for loop
ExecuteToolCall ==
    /\ pc = "tools"
    /\ \E tool_call \in { assistant_message.tool_calls[tc] } :
       \E rnd \in Draws(tool_call.function.name) :
       \E ran \in { RunToolCall(tool_call, rnd) } :
          /\ IF ran.raised
             THEN /\ http' = HTTPException("/chat", 500, ran.value.s)
                  /\ pc' = "done"
                  /\ UNCHANGED << conversations, tool_calls_made, tc >>
             ELSE /\ tool_calls_made' = Append(tool_calls_made, ran.value)
                  /\ conversations' =
                       AppendMessage(conversations, conversation_id,
                                     ToolMessage(tool_call, ran.value.result))
                  /\ IF tc < Len(assistant_message.tool_calls)
                     THEN tc' = tc + 1 /\ pc' = "tools"
                     ELSE tc' = 0 /\ pc' = "model"
                  /\ UNCHANGED http
          /\ invoked' = ran.call
          /\ IF ran.call = NoCall
             THEN UNCHANGED tables
             ELSE tables' = HandlerWrites(ran.call.function_name, ran.call.function_args)
    /\ UNCHANGED << conversation_id, iteration, assistant_message, clock, varied, asked >>
    /\ UNCHANGED backend_vars

\* lines 192, 263-268: the loop condition fails; the degraded reply
MaxIterationsReached ==
    /\ pc = "model"
    /\ ~LoopContinues(iteration)
    /\ http' = ChatResponse(LIMIT_RESPONSE, conversation_id, tool_calls_made)
    /\ pc' = "done"
    /\ UNCHANGED << conversations, conversation_id, iteration, assistant_message,
                    tc, tool_calls_made, clock, varied, asked >>
    /\ invoked' = NoCall
    /\ UNCHANGED << tables, backend_vars >>

(***************************************************************************)
(* DELETE /conversations/{conversation_id}, app.py lines 290-296.          *)
(***************************************************************************)
\* (mutant of Remove: the store is emptied)
RemoveAll(store, cid) == << >>

Remove(store, cid) == [ c \in DOMAIN store \ { cid } |-> store[c] ]

DeletedIds == { "conv_1", "conv_2" }

\* (mutant of clear_conversation: the request is served while a /chat call
\* is in progress too, as if that call had yielded the event loop)
clear_conversation_during_chat(cid) ==
    /\ IF cid \in DOMAIN conversations
       THEN /\ conversations' = Remove(conversations, cid)
            /\ http' = [ NoResponse EXCEPT !.endpoint = "/conversations", !.status = 200,
                                           !.conversation_id = cid ]
       ELSE /\ UNCHANGED conversations
            /\ http' = HTTPException("/conversations", 404, "Conversation not found")
    /\ pc' = IF Free THEN "done" ELSE pc
    /\ UNCHANGED << chat_locals, clock, varied, asked >>
    /\ invoked' = NoCall
    /\ UNCHANGED << tables, backend_vars >>

\* lines 290-296.  The request is served when the event loop is free: chat
\* (lines 157-272) is a coroutine without an await, so it runs from its first
\* line to its return before the loop serves another request.
clear_conversation(cid) ==
    /\ Free
    /\ IF cid \in DOMAIN conversations
       THEN /\ conversations' = Remove(conversations, cid)
            /\ http' = [ NoResponse EXCEPT !.endpoint = "/conversations", !.status = 200,
                                           !.conversation_id = cid ]
       ELSE /\ UNCHANGED conversations
            /\ http' = HTTPException("/conversations", 404, "Conversation not found")
    /\ pc' = "done"
    /\ UNCHANGED << chat_locals, clock, varied, asked >>
    /\ invoked' = NoCall
    /\ UNCHANGED << tables, backend_vars >>

Requests ==
    [ message : Messages, conversation_id : GivenIds, context : Contexts ]

Next ==
    \/ \E req \in Requests : ChatStart(req)
    \/ ModelCallFails
    \/ \E m \in ToolMessages : ModelRequestsTools(m)
    \/ \E m \in FinalMessages : ModelAnswers(m)
    \/ ExecuteToolCall
    \/ MaxIterationsReached
    \/ \E cid \in DeletedIds : clock < MaxTurns /\ clear_conversation(cid)

Spec == Init /\ [][Next]_vars

\* The same handlers, with DELETE requests that also arrive after the last
\* /chat call of the behaviour
DeleteNext ==
    \/ \E req \in Requests : ChatStart(req)
    \/ ModelCallFails
    \/ \E m \in ToolMessages : ModelRequestsTools(m)
    \/ \E m \in FinalMessages : ModelAnswers(m)
    \/ ExecuteToolCall
    \/ MaxIterationsReached
    \/ \E cid \in DeletedIds : clear_conversation(cid)

DeleteSpec == Init /\ [][DeleteNext]_vars

\* A /chat call in progress takes its next step: the handler runs on the
\* event loop without awaiting, and a model call returns or raises
ChatStep ==
    \/ ModelCallFails
    \/ \E m \in ToolMessages : ModelRequestsTools(m)
    \/ \E m \in FinalMessages : ModelAnswers(m)
    \/ ExecuteToolCall
    \/ MaxIterationsReached

FairSpec == Spec /\ WF_vars(ChatStep)

(***************************************************************************)
(* The RAG backend: main.py /chat, GET and DELETE /conversations/{id},     *)
(* over CosmosService (cosmos_service.py).                                 *)
(***************************************************************************)
Users == { "anonymous", "bob" }

\* The identifier a client sends: none, the first one minted, one never minted
BackendIds == { None, "uuid_1", "uuid_9" }

BackendMessages == { "What is RAG?" }

\* What openai_service.chat returns
Replies == { "RAG is retrieval-augmented generation." }

BackendRequests ==
    [ conversation_id : BackendIds, user_id : Users, message : BackendMessages ]

\* str(uuid.uuid4()) of the n-th call
Uuid(n) == "uuid_" \o ToString(n)

\* container.read_item(item, partition_key): the document, if the container
\* holds it in that partition
Readable(item, partition_key) ==
    item \in DOMAIN container /\ container[item].userId = partition_key

\* The answers of the handlers
ChatAnswer(message, cid) ==
    [ NoAnswer EXCEPT !.status = 200, !.message = message, !.conversation_id = cid ]
ErrorAnswer(status, detail) == [ NoAnswer EXCEPT !.status = status, !.detail = detail ]
DocumentAnswer(doc) == [ NoAnswer EXCEPT !.status = 200, !.body = doc ]
DeletedAnswer(cid) ==
    [ NoAnswer EXCEPT !.status = 200, !.message = "deleted", !.conversation_id = cid ]

\* A task is free to serve a request
TaskFree(t) == backend[t].pc \in { "idle", "done" }

\* The task moves on: its pc and the locals given
Step(t, pc2, changes) ==
    backend' = [ backend EXCEPT ![t] = [ f \in DOMAIN backend[t] |->
                    IF f = "pc" THEN pc2
                    ELSE IF f \in DOMAIN changes THEN changes[f]
                    ELSE backend[t][f] ] ]

\* The task's request fails: main.py lines 182-184, HTTPException(500)
Fail(t, detail) ==
    Step(t, "done", [ answer |-> ErrorAnswer(500, detail) ])

\* main.py lines 141-146: a /chat request arrives
BackendChat(t, req) ==
    /\ TaskFree(t)
    /\ ops < MaxOps
    /\ ops' = ops + 1
    /\ backend' = [ backend EXCEPT ![t] =
            [ IdleTask EXCEPT !.op = "chat", !.request = req,
                              !.pc = IF req.conversation_id \in { None, "" }
                                     THEN "create" ELSE "read" ] ]
    /\ UNCHANGED << container, minted >>
    /\ UNCHANGED agent_vars

\* cosmos_service.py lines 66-74: read_item of the given identifier
GetOrCreateRead(t) ==
    /\ backend[t].pc = "read"
    /\ LET req == backend[t].request
       IN IF Readable(req.conversation_id, req.user_id)
          THEN Step(t, "history", [ conversation |-> container[req.conversation_id] ])
          ELSE Step(t, "create", << >>)
    /\ UNCHANGED << container, minted, ops >>
    /\ UNCHANGED agent_vars

\* cosmos_service.py lines 76-90: create_item of a new conversation
GetOrCreateCreate(t) ==
    /\ backend[t].pc = "create"
    /\ minted' = minted + 1
    /\ LET conversation == NewConversation(Uuid(minted'), backend[t].request.user_id)
       IN /\ container' = [ c \in DOMAIN container \cup { conversation.id } |->
                                IF c = conversation.id THEN conversation ELSE container[c] ]
          /\ Step(t, "history", [ conversation |-> conversation ])
    /\ UNCHANGED ops
    /\ UNCHANGED agent_vars

\* main.py line 155, cosmos_service.py lines 102-128: the stored messages
GetConversationMessages(t) ==
    /\ backend[t].pc = "history"
    /\ LET cid == backend[t].conversation.id
       IN Step(t, "openai",
               [ history |-> IF cid \in DOMAIN container
                             THEN container[cid].messages ELSE << >> ])
    /\ UNCHANGED << container, minted, ops >>
    /\ UNCHANGED agent_vars

\* main.py lines 166-170: the model answers
OpenAIChat(t, response) ==
    /\ backend[t].pc = "openai"
    /\ Step(t, "read_user", [ response |-> response ])
    /\ UNCHANGED << container, minted, ops >>
    /\ UNCHANGED agent_vars

\* main.py lines 166-170, 182-184: the model call raises
OpenAIChatFails(t) ==
    /\ backend[t].pc = "openai"
    /\ Fail(t, "openai chat failed")
    /\ UNCHANGED << container, minted, ops >>
    /\ UNCHANGED agent_vars

\* cosmos_service.py lines 164-176: the document with the message appended
\* to it, and the title taken from a first user message (content[:50]; the
\* contents here are shorter)
WithMessage(conversation, role, content) ==
    LET messages == Append(conversation.messages, [ role |-> role, content |-> content ])
    IN [ conversation EXCEPT
            !.messages = messages,
            !.title = IF role = "user" /\ Len(messages) = 1 THEN content ELSE @ ]

\* (mutant of AddMessageBody: the message is appended to the stored document)
AddMessageBodyOnStored(conversation, role, content) ==
    WithMessage(container[conversation.id], role, content)

\* cosmos_service.py lines 161-181: the body add_message hands to
\* replace_item: the document it read, changed
AddMessageBody(conversation, role, content) ==
    WithMessage(conversation, role, content)

\* The content add_message is called with: main.py lines 173-174
MessageContent(t, role) ==
    IF role = "user" THEN backend[t].request.message ELSE backend[t].response

\* cosmos_service.py lines 144-161: add_message queries the document by id
AddMessageRead(t, role) ==
    /\ backend[t].pc = "read_" \o role
    /\ LET cid == backend[t].conversation.id
       IN IF cid \in DOMAIN container
          THEN Step(t, "replace_" \o role, [ conversation |-> container[cid] ])
          ELSE Fail(t, "Conversation not found: " \o cid)
    /\ UNCHANGED << container, minted, ops >>
    /\ UNCHANGED agent_vars

\* cosmos_service.py lines 163-181, main.py lines 173-180: add_message
\* replaces the document; after the assistant's message /chat returns
AddMessageReplace(t, role) ==
    /\ backend[t].pc = "replace_" \o role
    /\ LET conversation == backend[t].conversation
           cid == conversation.id
       IN IF cid \in DOMAIN container
          THEN /\ container' = [ container EXCEPT ![cid] =
                        AddMessageBody(conversation, role, MessageContent(t, role)) ]
               /\ IF role = "user"
                  THEN Step(t, "read_assistant", << >>)
                  ELSE Step(t, "done",
                            [ answer |-> ChatAnswer(backend[t].response, cid) ])
          ELSE /\ Fail(t, "replace_item: not found")
               /\ UNCHANGED container
    /\ UNCHANGED << minted, ops >>
    /\ UNCHANGED agent_vars

\* main.py lines 210-225, cosmos_service.py lines 93-101: GET by id
get_conversation(t, cid, user_id) ==
    /\ TaskFree(t)
    /\ ops < MaxOps
    /\ ops' = ops + 1
    /\ backend' = [ backend EXCEPT ![t] =
            [ IdleTask EXCEPT
                !.op = "get", !.pc = "done",
                !.request = [ NoBackendRequest EXCEPT !.conversation_id = cid,
                                                      !.user_id = user_id ],
                !.answer = IF Readable(cid, user_id)
                           THEN DocumentAnswer(container[cid])
                           ELSE ErrorAnswer(404, "Conversation not found") ] ]
    /\ UNCHANGED << container, minted >>
    /\ UNCHANGED agent_vars

\* main.py lines 228-239, cosmos_service.py lines 209-218: DELETE by id
delete_conversation(t, cid, user_id) ==
    /\ TaskFree(t)
    /\ ops < MaxOps
    /\ ops' = ops + 1
    /\ container' = IF Readable(cid, user_id)
                    THEN [ c \in DOMAIN container \ { cid } |-> container[c] ]
                    ELSE container
    /\ backend' = [ backend EXCEPT ![t] =
            [ IdleTask EXCEPT
                !.op = "delete", !.pc = "done",
                !.request = [ NoBackendRequest EXCEPT !.conversation_id = cid,
                                                      !.user_id = user_id ],
                !.answer = DeletedAnswer(cid) ] ]
    /\ UNCHANGED minted
    /\ UNCHANGED agent_vars

\* The identifiers GET and DELETE are called with
PathIds == { "uuid_1", "uuid_9" }

BackendNext ==
    \/ \E t \in Tasks, req \in BackendRequests : BackendChat(t, req)
    \/ \E t \in Tasks : GetOrCreateRead(t)
    \/ \E t \in Tasks : GetOrCreateCreate(t)
    \/ \E t \in Tasks : GetConversationMessages(t)
    \/ \E t \in Tasks, response \in Replies : OpenAIChat(t, response)
    \/ \E t \in Tasks : OpenAIChatFails(t)
    \/ \E t \in Tasks, role \in { "user", "assistant" } : AddMessageRead(t, role)
    \/ \E t \in Tasks, role \in { "user", "assistant" } : AddMessageReplace(t, role)
    \/ \E t \in Tasks, cid \in PathIds, user_id \in Users : get_conversation(t, cid, user_id)
    \/ \E t \in Tasks, cid \in PathIds, user_id \in Users : delete_conversation(t, cid, user_id)

BackendSpec == Init /\ [][BackendNext]_vars

(***************************************************************************)
(* POST /tools/{tool_name}, app.py lines 275-287, and the handlers called  *)
(* from the loop.                                                          *)
(***************************************************************************)
\* line 284: {"tool": ..., "arguments": ..., "result": ...}, kept in the
\* record of the tool trace (tool_name, arguments, result)
DirectResponse(tool_name, arguments, result) ==
    [ NoResponse EXCEPT !.endpoint = "/tools", !.status = 200,
                        !.tool_calls = << ToolCall(tool_name, arguments, result) >> ]

\* (mutant of call_tool_directly: an unknown name and a failing handler are
\* answered as the loop answers an unknown name, with an error-shaped result)
call_tool_directly_error_result(tool_name, arguments, rnd) ==
    /\ Free
    /\ varied < MaxVaried
    /\ \E called \in { IF tool_name \in TOOL_FUNCTIONS
                       THEN CallToolFunction(tool_name, arguments, rnd)
                       ELSE Raised("Unknown tool: " \o tool_name) } :
         http' = DirectResponse(tool_name, arguments,
                                IF called.raised
                                THEN JDict(<< <<"error", called.value>> >>)
                                ELSE called.value)
    /\ invoked' = IF tool_name \in TOOL_FUNCTIONS THEN Call(tool_name, arguments) ELSE NoCall
    /\ UNCHANGED tables
    /\ pc' = "done"
    /\ varied' = varied + 1
    /\ UNCHANGED << conversations, chat_locals, clock, asked >>
    /\ UNCHANGED backend_vars

\* lines 275-287; the body (arguments) is a JSON object
call_tool_directly(tool_name, arguments, rnd) ==
    /\ Free
    /\ varied < MaxVaried
    /\ IF tool_name \notin TOOL_FUNCTIONS
       THEN /\ http' = HTTPException("/tools", 404, "Tool '" \o tool_name \o "' not found")
            /\ invoked' = NoCall
            /\ UNCHANGED tables
       ELSE /\ \E called \in { CallToolFunction(tool_name, arguments, rnd) } :
                 http' = IF called.raised
                         THEN HTTPException("/tools", 500, called.value.s)
                         ELSE DirectResponse(tool_name, arguments, called.value)
            /\ invoked' = Call(tool_name, arguments)
            /\ tables' = HandlerWrites(tool_name, arguments)
    /\ pc' = "done"
    /\ varied' = varied + 1
    /\ UNCHANGED << conversations, chat_locals, clock, asked >>
    /\ UNCHANGED backend_vars

\* The calls of the direct endpoint: the handler calls, and names in no table
DirectCalls ==
    HandlerCalls
    \cup { <<"restart_service", JDict(<< <<"resource_name", JStr("web-app-prod")>> >>)>>,
           <<"", JDict(<< >>)>> }

\* The model messages of the loop that request one handler call
HandlerMessages ==
    { [ content |-> None,
        tool_calls |-> << ToolRequest(ToolCallId(1), call[1], json_dumps(call[2])) >> ] :
      call \in LoopCalls }

\* A /chat request without a context
PlainRequests == { req \in Requests : req.context = JNull }

ToolNext ==
    \/ \E req \in PlainRequests : ChatStart(req)
    \/ \E m \in HandlerMessages : ModelRequestsTools(m)
    \/ ExecuteToolCall
    \/ \E m \in FinalMessages : ModelAnswers(m)
    \/ \E call \in DirectCalls : \E rnd \in Draws(call[1]) :
            call_tool_directly(call[1], call[2], rnd)

ToolSpec == Init /\ [][ToolNext]_vars

(***************************************************************************)
(* Properties.                                                             *)
(***************************************************************************)
IsCalls(x) == x.role = "assistant" /\ x.tool_calls # << >>
IsFinal(x) == x.role = "assistant" /\ x.tool_calls = << >>

\* The last /chat call has ended and nothing has run since
ChatEnded == pc = "done" /\ http.endpoint = "/chat"

\* The messages of the last turn of m: those after its last user message
LastUser(m) ==
    LET users == { i \in 1..Len(m) : m[i].role = "user" }
    IN IF users = { } THEN 0 ELSE CHOOSE i \in users : \A j \in users : j <= i
Turn(m) == SubSeq(m, LastUser(m) + 1, Len(m))

Count(m, P(_)) == Cardinality({ i \in 1..Len(m) : P(m[i]) })

IsTool(x) == x.role = "tool"

RECURSIVE RequestsIn(_)
RequestsIn(m) ==
    IF m = << >> THEN 0 ELSE Len(m[1].tool_calls) + RequestsIn(Tail(m))

\* The tool messages that follow the assistant message at p, up to the next
\* message that is no tool message
Answers(m, p) ==
    LET stop == { j \in (p + 1)..Len(m) : m[j].role # "tool" }
        end == IF stop = { } THEN Len(m)
               ELSE (CHOOSE j \in stop : \A k \in stop : j <= k) - 1
    IN SubSeq(m, p + 1, end)

\* The tool messages after the assistant message at p answer its first
\* requests, in the order of the requests
InRequestOrder(m, p) ==
    LET a == Answers(m, p)
    IN /\ Len(a) <= Len(m[p].tool_calls)
       /\ \A i \in 1..Len(a) : a[i].tool_call_id = m[p].tool_calls[i].id

\* ... and answer all of them
Complete(m, p) == InRequestOrder(m, p) /\ Len(Answers(m, p)) = Len(m[p].tool_calls)

\* The assistant message with tool calls that the tool message at i follows
GroupHead(m, i) ==
    { p \in 1..(i - 1) : IsCalls(m[p]) /\ \A j \in (p + 1)..(i - 1) : m[j].role = "tool" }

\* ---------------------------------------------------------------- C1
\* C1: a /chat call makes at most 10 model calls (iteration counts them) and
\* then ends, whatever the model answers: a call in progress always ends.
C1_AtMostTenModelCallsThenEnds ==
    /\ [](iteration <= max_iterations)
    /\ []((pc \in { "model", "tools" }) => <>(pc = "done"))

\* a call that made all 10 model calls and ended with the degraded reply
C1_Witness ==
    ChatEnded /\ iteration = max_iterations /\ http.response = LIMIT_RESPONSE

\* ---------------------------------------------------------------- C2
\* C2: if all 10 model messages of a /chat call carry tool requests, the call
\* does not raise: it answers the degraded reply with the conversation id and
\* a tool trace that holds every tool request of the 10 messages.
C2_TenToolMessagesGiveDegradedReply ==
    (/\ ChatEnded
     /\ Count(Turn(conversations[conversation_id]), IsCalls) = max_iterations)
    => /\ http.status = 200
       /\ http.response = LIMIT_RESPONSE
       /\ http.conversation_id = conversation_id
       /\ Len(http.tool_calls) =
            RequestsIn(SelectSeq(Turn(conversations[conversation_id]), IsCalls))

\* ---------------------------------------------------------------- C3
\* C3: a pass of the for loop never ends the call: whatever the request (a
\* handler that raises, arguments that do not parse or do not fit), it
\* appends the request's tool message and the loop goes on.
C3_ToolFailureBecomesToolMessage ==
    [][ pc = "tools" =>
          /\ pc' \in { "tools", "model" }
          /\ Len(conversations'[conversation_id]) = Len(conversations[conversation_id]) + 1
          /\ LET last == conversations'[conversation_id][Len(conversations'[conversation_id])]
             IN /\ last.role = "tool"
                /\ last.tool_call_id = assistant_message.tool_calls[tc].id ]_vars

\* ---------------------------------------------------------------- C4
\* C4: once the for loop over the requests of a model message is over, the
\* stored conversation holds the assistant message with the requests,
\* followed by one tool message per request, in the order of the requests.
C4_OneToolMessagePerRequestInOrder ==
    \A cid \in Stored :
        LET m == conversations[cid]
        IN \A p \in 1..Len(m) :
            (/\ IsCalls(m[p])
             /\ ~(pc = "tools" /\ cid = conversation_id
                    /\ \A q \in (p + 1)..Len(m) : ~IsCalls(m[q])))
            => Complete(m, p)

\* ---------------------------------------------------------------- C5
\* The order of a stored conversation, message by message; `strict` is the
\* order as the claim states it (every turn ends with a final assistant
\* message, every group is complete).
Ordered(m, strict) ==
    /\ m[1].role = "system"
    /\ \A i \in 2..Len(m) :
        LET x == m[i]
            prev == m[i - 1]
            afterGroup == prev.role = "tool" /\ \A p \in GroupHead(m, i) : Complete(m, p)
        IN CASE x.role = "user" -> strict => (prev.role = "system" \/ IsFinal(prev))
             [] x.role = "tool" ->
                    /\ GroupHead(m, i) # { }
                    /\ \A p \in GroupHead(m, i) : InRequestOrder(m, p)
             [] IsCalls(x) -> prev.role = "user" \/ afterGroup
             [] IsFinal(x) -> prev.role = "user" \/ afterGroup
             [] OTHER -> FALSE
    /\ strict => (Len(m) > 1 => IsFinal(m[Len(m)]))

\* C5 (as stated): when no call is in progress, every stored conversation is
\* one system message, then per turn a user message, groups of (assistant
\* message with tool calls, its tool messages) and one final assistant message.
C5_CausalOrder ==
    Free => \A cid \in Stored : Ordered(conversations[cid], TRUE)

\* C5 (amended): in every state, every stored conversation is one system
\* message, then per turn a user message, groups of (assistant message with
\* tool calls, the tool messages of its requests in request order, all of
\* them unless the turn stopped in that group) and at most one final
\* assistant message, which ends the turn; a turn that has ended has the
\* final assistant message exactly when it ended with a final answer.
C5_CausalOrderAmended ==
    /\ \A cid \in Stored : Ordered(conversations[cid], FALSE)
    /\ ChatEnded =>
        LET m == conversations[conversation_id]
        IN IsFinal(m[Len(m)]) <=>
                (http.status = 200 /\ assistant_message.tool_calls = << >>)

\* a second turn stored after a turn that ended without a final answer
C5_Witness ==
    /\ ChatEnded
    /\ http.status = 200
    /\ LET m == conversations[conversation_id]
       IN \E i \in 2..Len(m) : m[i].role = "user" /\ m[i - 1].role = "tool"

\* ---------------------------------------------------------------- C6
\* C6: every stored tool message carries the id of a tool request of an
\* assistant message stored earlier in the same conversation.
C6_ToolMessageNamesEarlierRequest ==
    \A cid \in Stored :
        LET m == conversations[cid]
        IN \A i \in 1..Len(m) :
            m[i].role = "tool" =>
                \E j \in 1..(i - 1) :
                    /\ m[j].role = "assistant"
                    /\ \E k \in 1..Len(m[j].tool_calls) :
                            m[j].tool_calls[k].id = m[i].tool_call_id

\* a conversation that holds the tool messages of two requests of one message
C6_Witness ==
    \E cid \in Stored :
        LET m == conversations[cid]
        IN \E i \in 2..Len(m) :
            /\ m[i].role = "tool" /\ m[i - 1].role = "tool"
            /\ m[i].tool_call_id # m[i - 1].tool_call_id

\* ---------------------------------------------------------------- C7
\* C7 (as stated): a /chat request with a given and stored id reuses that
\* conversation and adds no system message; every other request gets a
\* minted id that is not the given one and is the id of no stored
\* conversation, and a new conversation of one system message and the user
\* message.
C7_ReuseOrMintFresh ==
    [][ \A req \in Requests :
          ChatStart(req) =>
            IF req.conversation_id \notin { None, "" } /\ req.conversation_id \in Stored
            THEN /\ conversation_id' = req.conversation_id
                 /\ conversations'[conversation_id'] =
                        Append(conversations[conversation_id'], UserMessage(req))
            ELSE /\ conversation_id' # req.conversation_id
                 /\ conversation_id' \notin Stored
                 /\ conversations'[conversation_id'] =
                        << Message("system", SYSTEM_PROMPT), UserMessage(req) >> ]_vars

\* C7 (amended): a /chat request with a given (non-empty) id uses that id,
\* stored or not; a request without one gets the id made from the clock. If
\* the id is the id of a stored conversation, that conversation is reused and
\* gets the user message and no system message; otherwise a new conversation
\* is stored under the id, one system message followed by the user message.
C7_GivenIdUsedOrClockId ==
    [][ \A req \in Requests :
          ChatStart(req) =>
            /\ conversation_id' =
                    IF req.conversation_id \in { None, "" }
                    THEN "conv_" \o ToString(clock')
                    ELSE req.conversation_id
            /\ conversations'[conversation_id'] =
                    IF conversation_id' \in Stored
                    THEN Append(conversations[conversation_id'], UserMessage(req))
                    ELSE << Message("system", SYSTEM_PROMPT), UserMessage(req) >>
            /\ \A cid \in Stored \ { conversation_id' } :
                    conversations'[cid] = conversations[cid] ]_vars

\* the first call, with a given id that no stored conversation has
C7_Witness ==
    /\ pc = "model" /\ iteration = 0 /\ clock = 1
    /\ conversation_id = "conv_2"
    /\ Len(conversations["conv_2"]) = 2
    /\ conversations["conv_2"][1] = Message("system", SYSTEM_PROMPT)

\* ---------------------------------------------------------------- C8
\* C8: a pass of the for loop over a request whose name is not in the tool
\* table does not end the call: the result {error: "Unknown tool: <name>"}
\* is appended as the tool message with the request's id and added to the
\* tool trace, and the loop goes on.
C8_UnknownToolBecomesErrorResult ==
    [][ (pc = "tools"
            /\ assistant_message.tool_calls[tc].function.name \notin TOOL_FUNCTIONS) =>
          LET tool_call == assistant_message.tool_calls[tc]
              result == JDict(<< <<"error",
                            JStr("Unknown tool: " \o tool_call.function.name)>> >>)
          IN /\ pc' \in { "tools", "model" }
             /\ conversations'[conversation_id] =
                    Append(conversations[conversation_id],
                           [ role |-> "tool", content |-> json_dumps(result),
                             tool_calls |-> << >>, tool_call_id |-> tool_call.id ])
             /\ Len(tool_calls_made') = Len(tool_calls_made) + 1
             /\ tool_calls_made'[Len(tool_calls_made')].tool_name = tool_call.function.name
             /\ tool_calls_made'[Len(tool_calls_made')].result = result ]_vars

\* ---------------------------------------------------------------- C9
\* The last model message of the call that has ended carried no tool requests
FinalAnswered ==
    ChatEnded /\ assistant_message # NoMessage /\ assistant_message.tool_calls = << >>

\* C9: a model message without tool requests ends the call: its content, or
\* the fallback string if the content is empty or null, is appended as the
\* one assistant message of that step and returned with the conversation id
\* and the tool trace; a call that returns a reply either ended so or used
\* up its 10 iterations.
C9_NoToolRequestsIsFinalAnswer ==
    /\ [](FinalAnswered =>
            LET m == conversations[conversation_id]
                text == IF assistant_message.content \in { None, "" }
                        THEN FALLBACK_RESPONSE
                        ELSE assistant_message.content
            IN /\ http = ChatResponse(text, conversation_id, tool_calls_made)
               /\ m[Len(m)] = Message("assistant", text)
               /\ Count(Turn(m), IsFinal) = 1)
    /\ []((ChatEnded /\ http.status = 200) =>
            \/ FinalAnswered
            \/ iteration = max_iterations /\ http.response = LIMIT_RESPONSE)
    /\ [][ (pc = "model" /\ assistant_message' # assistant_message
                /\ assistant_message'.tool_calls = << >>) =>
             /\ pc' = "done"
             /\ Len(conversations'[conversation_id]) =
                    Len(conversations[conversation_id]) + 1 ]_vars

\* an empty final content after some tool calls: the fallback is returned
C9_Witness ==
    /\ FinalAnswered
    /\ assistant_message.content = ""
    /\ tool_calls_made # << >>
    /\ http.response = FALLBACK_RESPONSE

\* ---------------------------------------------------------------- C10
\* The call that has ended failed in its model call
ModelFailed == ChatEnded /\ http.status = 500 /\ http.detail = "model call failed"

\* C10: a failing model call ends the /chat call at once with one 500: the
\* step counts one model call and no further model call of that /chat call
\* follows, it leaves the stored conversations and the trace as they are, and
\* the conversation then holds, after the user message, exactly the messages
\* of the iterations before the failing one: one assistant message with tool
\* calls per iteration, each with all its tool messages, and no final message.
C10_ModelFailureEndsCallKeepsMessages ==
    /\ [][ (pc = "model" /\ http'.status = 500) =>
             /\ pc' = "done"
             /\ iteration' = iteration + 1
             /\ conversations' = conversations
             /\ tool_calls_made' = tool_calls_made ]_vars
    /\ [][ (ModelFailed /\ pc' = "model") => iteration' = 0 ]_vars
    /\ [](ModelFailed =>
            LET m == conversations[conversation_id]
            IN /\ Count(Turn(m), IsCalls) = iteration - 1
               /\ Count(Turn(m), IsFinal) = 0
               /\ Count(Turn(m), IsTool) = Len(tool_calls_made)
               /\ \A p \in (LastUser(m) + 1)..Len(m) : IsCalls(m[p]) => Complete(m, p))

\* a model call that failed in the third iteration, after two rounds of tools
C10_Witness ==
    ModelFailed /\ iteration = 3 /\ Len(tool_calls_made) >= 2

\* ---------------------------------------------------------------- C11
\* C11: a step of a /chat call changes the stored messages of the call's own
\* conversation id only: it removes no conversation, stores none under
\* another id, and leaves the messages of every other id as they are.  The
\* handler never awaits, so concurrent calls run one after the other, in any
\* order; with every step of a call on id A leaving id B alone, the
\* conversation of B is what the calls on B alone make it.
C11_ChatChangesOnlyItsOwnConversation ==
    [][ http'.endpoint # "/conversations" =>
          /\ Stored \subseteq DOMAIN conversations'
          /\ DOMAIN conversations' \subseteq Stored \cup { conversation_id' }
          /\ \A cid \in Stored \ { conversation_id' } :
                conversations'[cid] = conversations[cid] ]_vars

\* a call on one id has appended two tool messages while a conversation
\* with another id is stored
C11_Witness ==
    /\ pc = "model" /\ iteration = 1
    /\ Len(tool_calls_made) = 2
    /\ \E cid \in Stored : cid # conversation_id /\ Len(conversations[cid]) >= 3

\* C12: add_message replaces the document with the one it read plus its own
\* message, whatever has been stored since: when another add_message on the
\* same conversation wrote between the read and the write, that message is
\* gone from the store (last writer wins).
C12_LastWriterWins ==
    [][ \A t \in Tasks, role \in { "user", "assistant" } :
          ( /\ backend[t].pc = "replace_" \o role
            /\ backend'[t].pc # backend[t].pc
            /\ backend[t].conversation.id \in DOMAIN container )
          => LET read == backend[t].conversation
                 written == container'[read.id].messages
             IN /\ written = Append(read.messages,
                                    [ role |-> role, content |-> MessageContent(t, role) ])
                /\ Len(container[read.id].messages) > Len(read.messages)
                      => Len(written) <= Len(container[read.id].messages) ]_vars

\* Two /chat calls on one conversation both answered 200 and the stored
\* document holds fewer than their four messages.
C12_Witness ==
    \E t1, t2 \in Tasks :
        /\ t1 # t2
        /\ backend[t1].op = "chat" /\ backend[t2].op = "chat"
        /\ backend[t1].answer.status = 200 /\ backend[t2].answer.status = 200
        /\ backend[t1].answer.conversation_id = backend[t2].answer.conversation_id
        /\ backend[t1].answer.conversation_id \in DOMAIN container
        /\ Len(container[backend[t1].answer.conversation_id].messages) < 4

\* C13: DELETE /conversations/{id} of the agent removes the conversation
\* stored under the id and no other and answers 200; for an id that is not
\* stored it answers 404 and changes nothing.  After a 200 the id is not
\* stored, so the same DELETE again answers 404, and a /chat that names the id
\* next starts from the system message followed by its user message.
C13_DeleteRemovesOneOr404 ==
    [][ /\ \A cid \in DeletedIds :
              clear_conversation(cid) =>
                 /\ http'.endpoint = "/conversations"
                 /\ cid \notin DOMAIN conversations'
                 /\ IF cid \in Stored
                    THEN /\ http'.status = 200
                         /\ DOMAIN conversations' = Stored \ { cid }
                         /\ \A c \in DOMAIN conversations' :
                                conversations'[c] = conversations[c]
                    ELSE /\ http'.status = 404
                         /\ conversations' = conversations
        /\ ( /\ http.endpoint = "/conversations" /\ http.status = 200
             /\ pc' = "model" /\ iteration' = 0
             /\ conversation_id' = http.conversation_id )
           => LET m == conversations'[conversation_id']
              IN /\ Len(m) = 2
                 /\ m[1] = Message("system", SYSTEM_PROMPT)
                 /\ m[2].role = "user" ]_vars

\* A conversation was deleted while another one, with a finished turn, stays
\* stored.
C13_Witness ==
    /\ http.endpoint = "/conversations" /\ http.status = 200
    /\ \E cid \in Stored : cid # http.conversation_id /\ Len(conversations[cid]) >= 3

IsDirectCall == pc' = "done" /\ http'.endpoint = "/tools"

\* The results the handler call `invoked` can return, over the draws of random
ResultsOf(call) ==
    { CallToolFunction(call.function_name, call.function_args, rnd) :
        rnd \in Draws(call.function_name) }

\* C14: POST /tools/{tool_name} answers 404 for a name that is not in
\* TOOL_FUNCTIONS and calls no handler; when the handler (or the binding of
\* its arguments) raises it answers 500 with the exception text as detail and
\* no result; otherwise it answers {tool, arguments, result} with the result
\* of the handler.  The stored conversations are the same after the call.
C14_DirectCallAnswers ==
    [][ IsDirectCall =>
          /\ conversations' = conversations
          /\ http'.status \in { 200, 404, 500 }
          /\ http'.status = 404 <=> invoked' = NoCall
          /\ http'.status = 404 =>
                /\ \E call \in DirectCalls :
                      /\ call[1] \notin TOOL_FUNCTIONS
                      /\ http'.detail = "Tool '" \o call[1] \o "' not found"
                /\ http'.tool_calls = << >>
          /\ http'.status = 500 =>
                /\ invoked'.function_name \in TOOL_FUNCTIONS
                /\ \A r \in ResultsOf(invoked') : r.raised /\ http'.detail = r.value.s
                /\ http'.tool_calls = << >>
          /\ http'.status = 200 =>
                /\ invoked'.function_name \in TOOL_FUNCTIONS
                /\ \E r \in ResultsOf(invoked') :
                      /\ ~r.raised
                      /\ http'.tool_calls = << ToolCall(invoked'.function_name,
                                                        invoked'.function_args, r.value) >>
                /\ http'.detail = "" ]_vars

\* A direct call whose handler raised was answered 500 while a conversation
\* with a finished turn is stored.
C14_Witness ==
    /\ http.endpoint = "/tools" /\ http.status = 500
    /\ invoked.function_name = "get_recent_logs"
    /\ \E cid \in Stored : Len(conversations[cid]) >= 3

\* C16: a step that calls a handler, from the loop or from the direct
\* endpoint, leaves MOCK_RESOURCES and TOOL_DEFINITIONS as they were at import
\* and changes no stored message: the direct endpoint leaves the store as it
\* is, and in the loop the only change is the tool message the loop itself
\* appends to the conversation of the call.
C16_HandlersChangeNothing ==
    [][ invoked' # NoCall =>
          /\ invoked'.function_name \in TOOL_FUNCTIONS
          /\ tables' = tables
          /\ tables' = StaticTables
          /\ DOMAIN conversations' = Stored
          /\ \A cid \in Stored :
                LET before == conversations[cid]
                    after == conversations'[cid]
                IN \/ after = before
                   \/ /\ ~IsDirectCall
                      /\ cid = conversation_id
                      /\ Len(after) = Len(before) + 1
                      /\ SubSeq(after, 1, Len(before)) = before
                      /\ after[Len(after)].role = "tool" ]_vars

\* The loop called get_system_config, which returns the config and tags
\* objects of the table, while another conversation is stored.
C16_Witness ==
    /\ invoked.function_name = "get_system_config"
    /\ pc = "model" /\ iteration = 1
    /\ tables = StaticTables
    /\ \E cid \in Stored : cid # conversation_id /\ Len(conversations[cid]) >= 3

\* The direct endpoint has answered a call of the handler with its result
Answered(function_name) ==
    /\ http.endpoint = "/tools" /\ http.status = 200
    /\ invoked.function_name = function_name

\* The result of that call
DirectResult == http.tool_calls[1].result

\* C18: get_service_health answers 'degraded' with a non-empty list of
\* incidents, each with an incident_id, when service is 'Azure SQL' and region
\* (by default 'eastus') is 'eastus', and 'healthy' with an empty list for
\* every other pair; the result carries the service and the region given.
C18_DegradedOnlyForAzureSqlEastus ==
    Answered("get_service_health") =>
        LET service == Get(invoked.function_args, "service")
            region == Arg(invoked.function_args, "region", JStr("eastus"))
            incidents == Get(DirectResult, "active_incidents")
        IN /\ Get(DirectResult, "service") = service
           /\ Get(DirectResult, "region") = region
           /\ incidents.t = "list"
           /\ IF service = JStr("Azure SQL") /\ region = JStr("eastus")
              THEN /\ Get(DirectResult, "status") = JStr("degraded")
                   /\ incidents.items # << >>
                   /\ \A i \in 1..Len(incidents.items) :
                         "incident_id" \in Keys(incidents.items[i])
              ELSE /\ Get(DirectResult, "status") = JStr("healthy")
                   /\ incidents.items = << >>

\* The call names 'Azure SQL' and no region, and is answered 'degraded'.
C18_Witness ==
    /\ Answered("get_service_health")
    /\ Keys(invoked.function_args) = { "service" }
    /\ Get(DirectResult, "status") = JStr("degraded")
    /\ Get(DirectResult, "region") = JStr("eastus")

\* C19: whatever the jitter drawn, the cpu block of web-app-prod has
\* current_percent >= 75 and status 'warning' or 'critical', and the latency
\* block of sql-db-main has p50_ms >= 500 and status 'critical'.
C19_DesignatedResourcesLookUnhealthy ==
    Answered("get_system_metrics") =>
        LET resource == Get(DirectResult, "resource")
            data == Get(DirectResult, "data")
        IN /\ (resource = JStr("web-app-prod") /\ "cpu" \in Keys(data)) =>
                 /\ Get(Get(data, "cpu"), "current_percent").t = "int"
                 /\ Get(Get(data, "cpu"), "current_percent").n >= 75
                 /\ Get(Get(data, "cpu"), "status") \in { JStr("warning"), JStr("critical") }
           /\ (resource = JStr("sql-db-main") /\ "latency" \in Keys(data)) =>
                 /\ Get(Get(data, "latency"), "p50_ms").t = "int"
                 /\ Get(Get(data, "latency"), "p50_ms").n >= 500
                 /\ Get(Get(data, "latency"), "status") = JStr("critical")

\* The cpu metrics of web-app-prod with the lowest jitter, -5.
C19_Witness ==
    /\ Answered("get_system_metrics")
    /\ Get(DirectResult, "resource") = JStr("web-app-prod")
    /\ "cpu" \in Keys(Get(DirectResult, "data"))
    /\ Get(Get(Get(DirectResult, "data"), "cpu"), "current_percent") = JInt(80)

\* The keys of the descriptor get_resource_details returns for a resource
DescriptorKeys ==
    { "resource_name", "resource_type", "resource_group", "subscription", "region",
      "tags", "provisioning_state", "created_at", "last_modified", "resource_id" }

\* C20: for a name that is not in MOCK_RESOURCES get_resource_details
\* returns a result with the keys 'error' and 'suggestion'; for a name in the
\* table it returns the descriptor of the resource, with the resource_id path
\* and without 'error'.
C20_AbsenceIsAnError ==
    Answered("get_resource_details") =>
        LET resource_name == Get(invoked.function_args, "resource_name")
        IN /\ Get(DirectResult, "resource_name") = resource_name
           /\ IF resource_name.t = "str" /\ resource_name.s \in DOMAIN MOCK_RESOURCES
              THEN /\ Keys(DirectResult) = DescriptorKeys
                   /\ Get(DirectResult, "resource_type") =
                         JStr(MOCK_RESOURCES[resource_name.s].type)
                   /\ Get(DirectResult, "tags") = MOCK_RESOURCES[resource_name.s].tags
                   /\ Get(DirectResult, "resource_id") =
                         JStr("/subscriptions/prod-subscription/resourceGroups/rg-production"
                              \o "/providers/Microsoft.App/containerApps/" \o resource_name.s)
              ELSE /\ "error" \in Keys(DirectResult)
                   /\ "suggestion" \in Keys(DirectResult)
                   /\ "resource_id" \notin Keys(DirectResult)

\* A name that differs from a table entry only in case is answered with the
\* error.
C20_Witness ==
    /\ Answered("get_resource_details")
    /\ Get(invoked.function_args, "resource_name") = JStr("Web-App-Prod")
    /\ "error" \in Keys(DirectResult)

\* The direct endpoint has served a call of the handler that bound its
\* arguments: it answered with the result, or with 500 if the handler raised
Served(function_name) ==
    /\ http.endpoint = "/tools" /\ http.status \in { 200, 500 }
    /\ invoked.function_name = function_name
    /\ invoked.function_args.t = "dict"
    /\ Keys(invoked.function_args) \subseteq Range(Signature(function_name).parameters)
    /\ Range(Signature(function_name).required) \subseteq Keys(invoked.function_args)

\* C21: get_system_config called with a name (a string, or another value
\* that can be a key) returns a result without an 'error' key: for a name of
\* MOCK_RESOURCES the stored type, config and tags of that resource, whatever
\* resource_type was given, and for every other name the generic block with
\* status 'running' and sku 'Standard', the name and the resource_type given.
C21_ConfigIsNeverAnError ==
    ( Served("get_system_config")
      /\ Hashable(Get(invoked.function_args, "resource_name")) ) =>
        LET resource_name == Get(invoked.function_args, "resource_name")
            resource_type == Get(invoked.function_args, "resource_type")
        IN /\ http.status = 200
           /\ "error" \notin Keys(DirectResult)
           /\ Get(DirectResult, "resource_name") = resource_name
           /\ IF resource_name.t = "str" /\ resource_name.s \in DOMAIN MOCK_RESOURCES
              THEN /\ Get(DirectResult, "resource_type") =
                         JStr(MOCK_RESOURCES[resource_name.s].type)
                   /\ Get(DirectResult, "configuration") = MOCK_RESOURCES[resource_name.s].config
                   /\ Get(DirectResult, "tags") = MOCK_RESOURCES[resource_name.s].tags
              ELSE /\ Get(DirectResult, "resource_type") = resource_type
                   /\ Get(Get(DirectResult, "configuration"), "status") = JStr("running")
                   /\ Get(Get(DirectResult, "configuration"), "sku") = JStr("Standard")

\* web-app-prod asked for as a sql_database is answered as the container_app
\* it is stored as.
C21_Witness ==
    /\ Answered("get_system_config")
    /\ Get(invoked.function_args, "resource_name") = JStr("web-app-prod")
    /\ Get(invoked.function_args, "resource_type") = JStr("sql_database")
    /\ Get(DirectResult, "resource_type") = JStr("container_app")

\* C22: check_dependencies called with a name returns a result without an
\* 'error' key: for a name that is not in MOCK_RESOURCES empty upstream and
\* downstream lists, and for a name of the table the stored lists, with
\* upstream_count and downstream_count the lengths of those lists.
C22_DependenciesAreNeverAnError ==
    ( Served("check_dependencies")
      /\ Hashable(Get(invoked.function_args, "resource_name")) ) =>
        LET resource_name == Get(invoked.function_args, "resource_name")
        IN /\ http.status = 200
           /\ "error" \notin Keys(DirectResult)
           /\ Get(DirectResult, "resource") = resource_name
           /\ IF resource_name.t = "str" /\ resource_name.s \in DOMAIN MOCK_RESOURCES
              THEN LET deps == MOCK_RESOURCES[resource_name.s].dependencies
                   IN /\ Get(DirectResult, "upstream_dependencies") = deps.upstream
                      /\ Get(DirectResult, "downstream_dependencies") = deps.downstream
                      /\ Get(DirectResult, "upstream_count") =
                            JInt(Len(Get(DirectResult, "upstream_dependencies").items))
                      /\ Get(DirectResult, "downstream_count") =
                            JInt(Len(Get(DirectResult, "downstream_dependencies").items))
              ELSE /\ Get(DirectResult, "upstream_dependencies") = JList(<< >>)
                   /\ Get(DirectResult, "downstream_dependencies") = JList(<< >>)

\* The dependencies of web-app-prod: three upstream, two downstream.
C22_Witness ==
    /\ Answered("check_dependencies")
    /\ Get(DirectResult, "resource") = JStr("web-app-prod")
    /\ Get(DirectResult, "upstream_count") = JInt(3)
    /\ Get(DirectResult, "downstream_count") = JInt(2)

\* The entries are in the order of their timestamps, the latest first
LatestFirst(entries) ==
    \A i, j \in 1..Len(entries) :
        i < j => Get(entries[i], "timestamp").n <= Get(entries[j], "timestamp").n

\* The logs of the result agree with its count and with the severity asked for
LogsAgree(result, severity) ==
    LET logs == Get(result, "logs").items
    IN /\ LatestFirst(logs)
       /\ Get(result, "count") = JInt(Len(logs))
       /\ severity \in { JStr("error"), JStr("warning"), JStr("info") } =>
             \A i \in 1..Len(logs) : Get(logs[i], "severity") = severity

\* C23 (as claimed): for every resource, severity, integer limit and draw,
\* get_recent_logs returns at most `limit` entries, the latest first, with
\* 'count' the number of entries; with severity 'error', 'warning' or 'info'
\* every entry has that severity.
C23_AtMostLimitLatestFirst ==
    ( Served("get_recent_logs")
      /\ Arg(invoked.function_args, "limit", JInt(20)).t = "int" ) =>
        /\ http.status = 200
        /\ Len(Get(DirectResult, "logs").items)
              <= Arg(invoked.function_args, "limit", JInt(20)).n
        /\ LogsAgree(DirectResult, Arg(invoked.function_args, "severity", JStr("all")))

\* C23 (amended): ... returns at most `limit` entries when limit >= 0 and
\* none when limit < 0, the latest first, with 'count' the number of entries;
\* with severity 'error', 'warning' or 'info' every entry has that severity.
C23_AtMostLimitOrNoneLatestFirst ==
    ( Served("get_recent_logs")
      /\ Arg(invoked.function_args, "limit", JInt(20)).t = "int" ) =>
        LET limit == Arg(invoked.function_args, "limit", JInt(20)).n
        IN /\ http.status = 200
           /\ Len(Get(DirectResult, "logs").items) <= (IF limit >= 0 THEN limit ELSE 0)
           /\ LogsAgree(DirectResult, Arg(invoked.function_args, "severity", JStr("all")))

\* Three entries were asked for and returned, drawn at different times.
C23_Witness ==
    /\ Answered("get_recent_logs")
    /\ Get(invoked.function_args, "limit") = JInt(3)
    /\ LET logs == Get(DirectResult, "logs").items
       IN /\ Len(logs) = 3
          /\ Get(logs[1], "timestamp").n < Get(logs[3], "timestamp").n

\* C24: for every resource and every integer `days`, get_recent_changes
\* returns exactly min(days, number of change templates) records (none when
\* days <= 0), the latest first, with change_count the number of records and
\* time_period_days the `days` given.
C24_MinOfDaysAndTemplates ==
    ( Served("get_recent_changes")
      /\ Arg(invoked.function_args, "days", JInt(7)).t = "int" ) =>
        LET days == Arg(invoked.function_args, "days", JInt(7))
        IN /\ http.status = 200
           /\ LET changes == Get(DirectResult, "changes").items
              IN /\ Len(changes) = (IF days.n <= 0 THEN 0
                                    ELSE Min(days.n, Len(change_templates)))
                 /\ LatestFirst(changes)
                 /\ Get(DirectResult, "change_count") = JInt(Len(changes))
                 /\ Get(DirectResult, "time_period_days") = days

\* The metric blocks, in the order of _generate_metrics
MetricKinds == { "cpu", "memory", "latency", "requests", "errors" }

\* The blocks a metric_type selects
Selected(metric_type) ==
    IF metric_type = JStr("all") THEN MetricKinds
    ELSE { k \in MetricKinds : metric_type = JStr(k) }

\* The value a block's status is about, and a threshold for it: 75 for the
\* cpu percentage and 500 for the p50 latency as the spec's tests name them;
\* for the memory percentage and the error count a number between the values
\* of a healthy block and those of an unhealthy one
StatusValue(kind, block) ==
    CASE kind = "cpu" -> Get(block, "current_percent").n
      [] kind = "memory" -> Get(block, "current_percent").n
      [] kind = "latency" -> Get(block, "p50_ms").n
      [] kind = "requests" -> Get(block, "failed").n
      [] kind = "errors" -> Get(block, "total").n

StatusThreshold ==
    [ cpu |-> 75, memory |-> 60, latency |-> 500, requests |-> 100, errors |-> 100 ]

\* C25: the data of a get_system_metrics result holds exactly the blocks
\* selected by metric_type (all five for 'all'), and every block carries a
\* 'status' that is 'healthy' exactly when the block's value is below the
\* threshold of its kind.
C25_SelectedBlocksCarryStatus ==
    Served("get_system_metrics") =>
        /\ http.status = 200
        /\ LET data == Get(DirectResult, "data")
           IN /\ Keys(data) = Selected(Arg(invoked.function_args, "metric_type", JStr("all")))
              /\ \A kind \in Keys(data) :
                    /\ "status" \in Keys(Get(data, kind))
                    /\ Get(Get(data, kind), "status") = JStr("healthy")
                          <=> StatusValue(kind, Get(data, kind)) < StatusThreshold[kind]

\* C26: when a /chat call has ended (final answer, processing limit or
\* internal error), every tool request of every assistant message of its
\* conversation has exactly one tool message with its id among the tool
\* messages that follow that assistant message: no request is left unanswered.
C26_NoRequestLeftUnanswered ==
    ChatEnded =>
        LET m == conversations[conversation_id]
        IN \A p \in 1..Len(m) :
              IsCalls(m[p]) =>
                 \A r \in 1..Len(m[p].tool_calls) :
                    Cardinality({ i \in 1..Len(Answers(m, p)) :
                                    Answers(m, p)[i].tool_call_id = m[p].tool_calls[r].id }) = 1

\* C27 (as claimed): when /chat has returned a reply, the reply text is the
\* content of the last message of the conversation, which is an assistant
\* message without tool calls; so the user message of the next turn follows
\* a final assistant message.
C27_ReplyIsLastStoredMessage ==
    /\ []((ChatEnded /\ http.status = 200) =>
            LET m == conversations[conversation_id]
            IN IsFinal(m[Len(m)]) /\ m[Len(m)].content = http.response)
    /\ [][ (ChatEnded /\ http.status = 200 /\ pc' = "model"
              /\ conversation_id' = conversation_id) =>
             LET after == conversations'[conversation_id]
             IN after[Len(after)].role = "user" /\ IsFinal(after[Len(after) - 1]) ]_vars

\* C27 (amended): when /chat has returned the reply of a final answer, the
\* reply text is the content of the last message of the conversation, an
\* assistant message without tool calls, and the user message of the next
\* turn on that conversation follows it.  When /chat has returned the
\* processing-limit reply, that reply is not stored: the last message is the
\* tool message of the last request, and the next turn's user message
\* follows that tool message.
C27_FinalAnswerIsLastStoredMessage ==
    /\ []((ChatEnded /\ http.status = 200) =>
            LET m == conversations[conversation_id]
            IN IF FinalAnswered
               THEN m[Len(m)] = Message("assistant", http.response)
               ELSE /\ http.response = LIMIT_RESPONSE
                    /\ m[Len(m)].role = "tool"
                    /\ \A i \in 1..Len(m) : m[i].content # LIMIT_RESPONSE)
    /\ [][ (ChatEnded /\ http.status = 200 /\ pc' = "model"
              /\ conversation_id' = conversation_id) =>
             LET after == conversations'[conversation_id]
                 n == Len(after)
             IN /\ n = Len(conversations[conversation_id]) + 1
                /\ after[n].role = "user"
                /\ IF FinalAnswered
                   THEN after[n - 1] = Message("assistant", http.response)
                   ELSE after[n - 1].role = "tool" ]_vars

\* A second turn has started on a conversation whose first turn ended with
\* the fallback reply after a tool call.
C27_Witness ==
    /\ pc = "model" /\ iteration = 0
    /\ LET m == conversations[conversation_id]
       IN /\ Len(m) >= 6
          /\ m[Len(m)].role = "user"
          /\ m[Len(m) - 1] = Message("assistant", FALLBACK_RESPONSE)
          /\ m[Len(m) - 2].role = "tool"

\* xs is a prefix of ys
IsPrefix(xs, ys) == Len(xs) <= Len(ys) /\ SubSeq(ys, 1, Len(xs)) = xs

\* C28: every step of a /chat call, the first (which opens the conversation
\* and appends the user message) and each later one, whatever the model
\* answers and however the call ends, leaves the messages its conversation
\* held before the step as an unchanged prefix of the messages it holds after
\* it; so the messages stored before the call are a prefix of those stored
\* after it.
C28_ChatOnlyAppends ==
    [][ (pc' = "model" \/ pc' = "tools" \/ http'.endpoint = "/chat") =>
          /\ conversation_id' \in DOMAIN conversations'
          /\ conversation_id' \in Stored =>
                IsPrefix(conversations[conversation_id'], conversations'[conversation_id'])
          /\ pc # "idle" /\ pc # "done" => conversation_id' = conversation_id ]_vars

\* The second call on a conversation has ended with a 500 in its for loop,
\* after the first call stored a turn with a tool message and a final answer.
C28_Witness ==
    /\ ChatEnded /\ http.status = 500 /\ tc > 0
    /\ LET m == conversations[conversation_id]
       IN /\ Cardinality({ i \in 1..Len(m) : m[i].role = "user" }) = 2
          /\ \E i \in 1..Len(m) : m[i].role = "tool" /\ i < LastUser(m)
          /\ IsCalls(m[Len(m)])

RECURSIVE Requested(_)
Requested(m) ==
    IF m = << >> THEN << >> ELSE m[1].tool_calls \o Requested(Tail(m))

\* C30: the tool trace of a /chat reply has one entry per tool message the
\* call appended (those after the call's user message), in the same order,
\* each with the name of the request the message answers and the result the
\* message holds; it has no entry of an earlier call on the conversation.
C30_TraceIsTheCallsInvocations ==
    (ChatEnded /\ http.status = 200) =>
        LET turn == Turn(conversations[conversation_id])
            appended == SelectSeq(turn, IsTool)
            requests == Requested(turn)
        IN /\ Len(http.tool_calls) = Len(appended)
           /\ Len(requests) = Len(appended)
           /\ \A i \in 1..Len(appended) :
                 /\ http.tool_calls[i].tool_name = requests[i].function.name
                 /\ appended[i].tool_call_id = requests[i].id
                 /\ json_dumps(http.tool_calls[i].result) = appended[i].content

\* A later call on a conversation that already held tool messages returned
\* a trace of its own: shorter than the tool messages stored, and not empty.
C30_Witness ==
    /\ ChatEnded /\ http.status = 200
    /\ Len(http.tool_calls) >= 1
    /\ Count(conversations[conversation_id], IsTool) > Len(http.tool_calls)
    /\ Count(conversations[conversation_id], LAMBDA x : x.role = "user") >= 2

\* C15: in the RAG backend a GET or a DELETE of /conversations/{id} for an
\* id that is not in the container (under the caller's partition) is
\* answered 404 and leaves the container as it is.
C15_AbsentIsNotFound ==
    [][ \A t \in Tasks :
          ( /\ backend'[t] # backend[t]
            /\ backend'[t].op \in { "get", "delete" }
            /\ ~Readable(backend'[t].request.conversation_id, backend'[t].request.user_id) )
          => /\ backend'[t].answer.status = 404
             /\ container' = container ]_vars

==============================================================================
